---- MODULE Spec2Model ----
(***************************************************************************)
(* Model of the dual-radar track fusion engine                             *)
(* (src/library/track_fusion.py, class TrackFusion).                       *)
(*                                                                         *)
(* Numbers.  The program computes with Python/numpy floats.  The model     *)
(* keeps them in fixed point: lengths in millimetres, velocities in mm/s,  *)
(* accelerations in mm/s^2, confidences in hundredths, time in whole       *)
(* seconds.  A value produced by a weighted average is kept as the exact   *)
(* fraction [num, den] (den = 0 stands for the NaN that numpy returns for  *)
(* 0/0); floating-point rounding error (about 1e-16 relative) is not       *)
(* modelled.                                                               *)
(*                                                                         *)
(* Time.  time.time() is the variable now; every time.time() call made     *)
(* during one fuse_tracks call reads the same value (a call lasts far less *)
(* than one second).                                                       *)
(***************************************************************************)
EXTENDS Integers, Sequences, FiniteSets, TLC

VARIABLES
    next_global_tid,        \* TrackFusion.next_global_tid
    radar_to_global_tid,    \* TrackFusion.radar_to_global_tid: (radar_name, tid) -> global_tid
    global_tid_last_seen,   \* TrackFusion.global_tid_last_seen: global_tid -> time
    now,                    \* the wall clock read by time.time()
    radar_frames,           \* argument of the latest fuse_tracks call
    fused_tracks,           \* list returned by the latest fuse_tracks call
    raised,                 \* TRUE when the latest fuse_tracks call raised an exception
    call_time,              \* history: the time of the latest call
    pre_next,               \* history: next_global_tid when the latest call started
    pre_map,                \* history: radar_to_global_tid when the latest call started
    pre_expired,            \* history: the global ids that were timed out when the latest call started
    prev_ids,               \* history: (radar_name, tid) -> global_tid in the output of the call
                            \*   before the latest one, for the ids not timed out in between
    \* FuseDualRadar.run and the queues of main.py
    clock,                  \* the wall clock in milliseconds (now is the same clock in whole seconds)
    radar_rd_queue,         \* radar_rd_queue_list: one queue of frame dicts per radar
    vis_queue,              \* the queue of fused lists read by the visualizer
    radar_frames_buffer,    \* radar name -> <<>> (None) or <<frame>>
    last_output_time,       \* local last_output_time of run
    frame_count,            \* FuseDualRadar.frame_count: batches written so far
    total_tracks_processed, \* FuseDualRadar.total_tracks_processed
    serial_writes,          \* number of packets written to the serial port
    pc,                     \* position in the loop body: i polls queue i, Len(Radars) + 1 is the tick test
    published,              \* history: frames each radar has put on its queue
    dequeued,               \* history: per radar, the frame numbers taken from its queue, in order
    ticks,                  \* history: tick boundaries passed
    tick_times,             \* history: current_time of each fuse_tracks call of run, in order
    tick_published,         \* history: published at the latest tick boundary
    fused_numbers,          \* history: per radar, the frame number fused at each tick boundary
                            \*   (0 when the slot was empty), in order
    iter_published,         \* history: published when the current loop iteration began
    \* RadarReader.run
    wire,                   \* bytes of the radar's stream that have not reached the data port yet
    port_buffer,            \* bytes received by the data port and not read yet (in_waiting of them)
    data_buffer,            \* local data_buffer of run, held in blocks (see Blocks)
    reader_frame_count,     \* RadarReader.frame_count
    parse_errors,           \* RadarReader.parse_errors
    buffer_offset,          \* history: offset in the stream of the first byte of data_buffer
    parse_calls,            \* history: the calls of _parse_tlv_1010_frame, in order
    stream_frames,          \* history: offset and length of the frames the stream is made of
    \* a packet written by _output_to_serial and read back by the parser
    codec_tracks,           \* the list passed to _output_to_serial
    serial_packet,          \* the bytes written to the serial port
    parsed,                 \* what _parse_tlv_1010_frame returns for them
    codec_pc,               \* "encode", "parse" or "done"
    \* the processes of main.py and the shared run flag
    run_flag,               \* run_flag.value
    ctx,                    \* process name -> "start", "test" (the while test), "body",
                            \*   "exited" (run returned) or "terminated" (by main)
    coordinator,            \* main: "joining", "stopping" (flag cleared, sleeping),
                            \*   "stopped" (after the forced termination) or "finished"
    ctx_errors              \* history: process name -> exceptions caught in its loop

fusion_vars == <<next_global_tid, radar_to_global_tid, global_tid_last_seen, now,
                 radar_frames, fused_tracks, raised, call_time, pre_next, pre_map,
                 pre_expired, prev_ids>>

sched_vars == <<clock, radar_rd_queue, vis_queue, radar_frames_buffer, last_output_time,
                frame_count, total_tracks_processed, serial_writes, pc, published,
                dequeued, ticks, tick_times, tick_published, fused_numbers,
                iter_published>>

reader_vars == <<wire, port_buffer, data_buffer, reader_frame_count, parse_errors,
                 buffer_offset, parse_calls, stream_frames>>

codec_vars == <<codec_tracks, serial_packet, parsed, codec_pc>>

run_vars == <<run_flag, ctx, coordinator, ctx_errors>>

vars == <<fusion_vars, sched_vars, reader_vars, codec_vars, run_vars>>

(***************************************************************************)
(* Program constants                                                       *)
(***************************************************************************)
tid_timeout == 2                \* seconds
distance_threshold == 500       \* millimetres (0.5 m)

(***************************************************************************)
(* Bounds of the model                                                     *)
(***************************************************************************)
MaxTime == 3                    \* the clock runs from 0 to MaxTime
MaxGid == 4                     \* no call is started that could allocate an id above MaxGid
MaxCand == 3                    \* candidate tracks in one fusion cycle
MaxTracks == 2                  \* tracks in one frame
MergeTime == 1                  \* the time of the calls of the merge specification

(***************************************************************************)
(* Generic helpers                                                         *)
(***************************************************************************)
Range(s) == {s[i] : i \in DOMAIN s}

SetMin(S) == CHOOSE x \in S : \A y \in S : x <= y

SetMax(S) == CHOOSE x \in S : \A y \in S : x >= y

\* sum_{i} f(s[i]) for a sequence of integers
SeqSum(s) ==
    LET F[k \in 0..Len(s)] == IF k = 0 THEN 0 ELSE F[k - 1] + s[k]
    IN  F[Len(s)]

\* the elements of s whose index is in S, in index order (a list comprehension with a filter)
SelectIdx(s, S) ==
    LET F[k \in 0..Len(s)] ==
            IF k = 0 THEN <<>>
            ELSE IF k \in S THEN Append(F[k - 1], s[k]) ELSE F[k - 1]
    IN  F[Len(s)]

\* dict assignment d[k] = v
DictPut(d, k, v) == [x \in DOMAIN d \cup {k} |-> IF x = k THEN v ELSE d[x]]

\* dict with the keys in K deleted
DictDel(d, K) == [x \in DOMAIN d \ K |-> d[x]]

EmptyDict == [x \in {} |-> 0]

(***************************************************************************)
(* Tracks and frames                                                       *)
(***************************************************************************)
\* a track dict as fuse_tracks reads it (the fields of the self-test's tracks; the
\* reader's extra gating_gain field is not read by the fusion)
MkTrack(tid, p, v, a, c) ==
    [tid |-> tid,
     posX |-> p[1], posY |-> p[2], posZ |-> p[3],
     velX |-> v[1], velY |-> v[2], velZ |-> v[3],
     accX |-> a[1], accY |-> a[2], accZ |-> a[3],
     confidence |-> c]

MkFrame(name, tracks, ts) == [radar_name |-> name, tracks |-> tracks, timestamp |-> ts]

Pos(t) == <<t.posX, t.posY, t.posZ>>
Vel(t) == <<t.velX, t.velY, t.velZ>>
Acc(t) == <<t.accX, t.accY, t.accZ>>
Key(t) == <<t.radar_name, t.tid>>

\* the fusion tables, passed through the helper methods as one record
Tables == [next |-> next_global_tid, map |-> radar_to_global_tid, seen |-> global_tid_last_seen]

(***************************************************************************)
(* TrackFusion._cleanup_old_tids                                           *)
(***************************************************************************)
\* old_tids: the ids whose last_seen is more than tid_timeout before current_time
OldTids(T, current_time) ==
    {g \in DOMAIN T.seen : current_time - T.seen[g] > tid_timeout}

\* mutant: the timed-out ids leave global_tid_last_seen, their keys stay in the mapping
CleanupOldTids_KeepKeys(T, current_time) ==
    [next |-> T.next,
     map  |-> T.map,
     seen |-> DictDel(T.seen, OldTids(T, current_time))]

CleanupOldTids(T, current_time) ==
    LET old_tids == OldTids(T, current_time)
        keys_to_remove == {k \in DOMAIN T.map : T.map[k] \in old_tids}
    IN  [next |-> T.next,
         map  |-> DictDel(T.map, keys_to_remove),
         seen |-> DictDel(T.seen, old_tids)]

(***************************************************************************)
(* TrackFusion._assign_global_tid                                          *)
(***************************************************************************)
\* mutant: a mapped key is not looked up, every single track gets a new id
SingleTid_AlwaysNew(T, key) == [global_tid |-> T.next, next |-> T.next + 1]

\* the id given to a single track and the counter after it
SingleTid(T, key) ==
    IF key \in DOMAIN T.map
    THEN [global_tid |-> T.map[key], next |-> T.next]
    ELSE [global_tid |-> T.next, next |-> T.next + 1]

\* mutant: a track that is passed through counts no radar
SingleFields_ZeroRadars(track, global_tid) ==
    [global_tid |-> global_tid,
     num_radars_detected |-> 0,
     source_radars |-> <<>>,
     source_tids |-> <<Key(track)>>]

\* the fields added to the track that is passed through
SingleFields(track, global_tid) ==
    [global_tid |-> global_tid,
     num_radars_detected |-> 1,
     source_radars |-> <<track.radar_name>>,
     source_tids |-> <<Key(track)>>]

\* mutant: the id's last_seen is not updated
AssignGlobalTid_NoLastSeen(T, track, t) ==
    LET key == Key(track)
        a   == SingleTid(T, key)
    IN  [T |-> [next |-> a.next,
                map  |-> DictPut(T.map, key, a.global_tid),
                seen |-> T.seen],
         track |-> SingleFields(track, a.global_tid) @@ track]

AssignGlobalTid(T, track, t) ==
    LET key == Key(track)
        a   == SingleTid(T, key)
    IN  [T |-> [next |-> a.next,
                map  |-> DictPut(T.map, key, a.global_tid),
                seen |-> DictPut(T.seen, a.global_tid, t)],
         track |-> SingleFields(track, a.global_tid) @@ track]

(***************************************************************************)
(* TrackFusion._assign_global_tid_multi                                    *)
(***************************************************************************)
\* existing_global_tids: the ids already mapped from a source track's key
ExistingGlobalTids(T, source_tracks) ==
    {T.map[Key(source_tracks[i])] :
        i \in {j \in DOMAIN source_tracks : Key(source_tracks[j]) \in DOMAIN T.map}}

\* mutant: the largest mapped id is adopted
MultiTid_Largest(T, source_tracks) ==
    LET existing_global_tids == ExistingGlobalTids(T, source_tracks)
    IN  IF existing_global_tids # {}
        THEN [global_tid |-> SetMax(existing_global_tids), next |-> T.next]
        ELSE [global_tid |-> T.next, next |-> T.next + 1]

\* mutant: the counter is not advanced after an allocation
MultiTid_NoIncrement(T, source_tracks) ==
    LET existing_global_tids == ExistingGlobalTids(T, source_tracks)
    IN  IF existing_global_tids # {}
        THEN [global_tid |-> SetMin(existing_global_tids), next |-> T.next]
        ELSE [global_tid |-> T.next, next |-> T.next]

\* the id given to a fused cluster and the counter after it
MultiTid(T, source_tracks) ==
    LET existing_global_tids == ExistingGlobalTids(T, source_tracks)
    IN  IF existing_global_tids # {}
        THEN [global_tid |-> SetMin(existing_global_tids), next |-> T.next]
        ELSE [global_tid |-> T.next, next |-> T.next + 1]

\* the mapping after every source track's key has been pointed at global_tid
RepointKeys(map, source_tracks, global_tid) ==
    LET keys == {Key(source_tracks[i]) : i \in DOMAIN source_tracks}
    IN  [k \in DOMAIN map \cup keys |-> IF k \in keys THEN global_tid ELSE map[k]]

AssignGlobalTidMulti(T, source_tracks, fused_track, t) ==
    LET a == MultiTid(T, source_tracks)
    IN  [T |-> [next |-> a.next,
                map  |-> RepointKeys(T.map, source_tracks, a.global_tid),
                seen |-> DictPut(T.seen, a.global_tid, t)],
         track |-> [global_tid |-> a.global_tid] @@ fused_track]

(***************************************************************************)
(* TrackFusion._merge_multiple_tracks                                      *)
(***************************************************************************)
\* the column of field f over a list of tracks
Column(tracks, f) == [i \in DOMAIN tracks |-> tracks[i][f]]

\* confidences = [t['confidence'] ...]; the reader sets the field in every track
Confidences(tracks) == Column(tracks, "confidence")

\* mutant: the plain mean, the weights are not applied
WeightedAverage_PlainMean(xs, confidences) == [num |-> SeqSum(xs), den |-> Len(xs)]

\* np.average(x, weights = confidences / sum(confidences)) as an exact fraction:
\* sum(x_i * c_i / S) / sum(c_i / S) with S = sum(c_i); S = 0 gives NaN (den = 0)
WeightedAverage(xs, confidences) ==
    LET S == SeqSum(confidences)
    IN  IF S = 0
        THEN [num |-> 0, den |-> 0]
        ELSE [num |-> SeqSum([i \in DOMAIN xs |-> xs[i] * confidences[i]]), den |-> S]

\* mutant: np.min(confidences)
FusedConfidence_Min(confidences) == SetMin(Range(confidences))

\* np.max(confidences)
FusedConfidence(confidences) == SetMax(Range(confidences))

\* np.mean(timestamps) as an exact fraction
Mean(xs) == [num |-> SeqSum(xs), den |-> Len(xs)]

FusedFields(tracks) ==
    LET c == Confidences(tracks)
        W(f) == WeightedAverage(Column(tracks, f), c)
    IN  [posX |-> W("posX"), posY |-> W("posY"), posZ |-> W("posZ"),
         velX |-> W("velX"), velY |-> W("velY"), velZ |-> W("velZ"),
         accX |-> W("accX"), accY |-> W("accY"), accZ |-> W("accZ"),
         confidence |-> FusedConfidence(c),
         num_radars_detected |-> Len(tracks),
         source_radars |-> Column(tracks, "radar_name"),
         source_tids |-> [i \in DOMAIN tracks |-> Key(tracks[i])],
         timestamp |-> Mean(Column(tracks, "timestamp"))]

MergeMultipleTracks(T, tracks, t) ==
    IF Len(tracks) = 1
    THEN AssignGlobalTid(T, tracks[1], t)
    ELSE AssignGlobalTidMulti(T, tracks, FusedFields(tracks), t)

(***************************************************************************)
(* TrackFusion.fuse_tracks                                                 *)
(***************************************************************************)
\* all_tracks: every track of every frame, in frame order then list order,
\* copied and tagged with its frame's radar_name and timestamp
RECURSIVE ExtractAllTracks(_)
ExtractAllTracks(frames) ==
    IF frames = <<>> THEN <<>>
    ELSE LET frame == Head(frames)
             tagged == [i \in DOMAIN frame.tracks |->
                          [radar_name |-> frame.radar_name,
                           timestamp |-> frame.timestamp] @@ frame.tracks[i]]
         IN  tagged \o ExtractAllTracks(Tail(frames))

\* squared euclidean distance (cdist(..., metric='euclidean') squared)
Dist2(p, q) ==
    (p[1] - q[1]) * (p[1] - q[1]) + (p[2] - q[2]) * (p[2] - q[2])
        + (p[3] - q[3]) * (p[3] - q[3])

\* dist_matrix[i, j] < self.distance_threshold (both sides are >= 0)
IsClose(p, q) == Dist2(p, q) < distance_threshold * distance_threshold

\* mutant: membership is decided against the members too, not against the seed only
CloseTracksIdx_Chained(all_tracks, i) ==
    {j \in DOMAIN all_tracks :
        \E k \in DOMAIN all_tracks :
            /\ IsClose(Pos(all_tracks[i]), Pos(all_tracks[k]))
            /\ IsClose(Pos(all_tracks[k]), Pos(all_tracks[j]))}

\* close_tracks_idx = np.where(dist_matrix[i, :] < threshold)
CloseTracksIdx(all_tracks, i) ==
    {j \in DOMAIN all_tracks : IsClose(Pos(all_tracks[i]), Pos(all_tracks[j]))}

\* mutant: only the seed is marked, merged_indices.add(i)
MergedAfterFuse_SeedOnly(merged_indices, close_tracks_idx, i) == merged_indices \cup {i}

\* merged_indices after a cluster seeded by i was fused: merged_indices.update(close_tracks_idx)
MergedAfterFuse(merged_indices, close_tracks_idx, i) == merged_indices \cup close_tracks_idx

\* the for loop over all_tracks, from index i on
RECURSIVE FuseLoop(_, _, _, _, _, _)
FuseLoop(T, all_tracks, i, merged_indices, fused, t) ==
    IF i > Len(all_tracks) THEN [T |-> T, fused_tracks |-> fused]
    ELSE IF i \in merged_indices
    THEN FuseLoop(T, all_tracks, i + 1, merged_indices, fused, t)
    ELSE LET close_tracks_idx == CloseTracksIdx(all_tracks, i)
             close_tracks == SelectIdx(all_tracks, close_tracks_idx \ merged_indices)
         IN  IF Len(close_tracks) > 1
             THEN LET r == MergeMultipleTracks(T, close_tracks, t)
                  IN  FuseLoop(r.T, all_tracks, i + 1,
                               MergedAfterFuse(merged_indices, close_tracks_idx, i),
                               Append(fused, r.track), t)
             ELSE LET r == AssignGlobalTid(T, all_tracks[i], t)
                  IN  FuseLoop(r.T, all_tracks, i + 1, merged_indices \cup {i},
                               Append(fused, r.track), t)

\* the result of a call: the tables after it, the list returned, and whether it raised.
\* cdist raises ValueError on an empty position array, so the loop is entered
\* only with at least one candidate.
Returned(T, fused) == [T |-> T, fused_tracks |-> fused, raised |-> FALSE]
Raised(T) == [T |-> T, fused_tracks |-> <<>>, raised |-> TRUE]

\* the distance matrix and the clustering loop
ClusterTracks(T, all_tracks, t) ==
    IF all_tracks = <<>> THEN Raised(T)
    ELSE LET r == FuseLoop(T, all_tracks, 1, {}, <<>>, t)
         IN  Returned(r.T, r.fused_tracks)

\* mutant: the guard `if not all_tracks` is missing
FuseCandidates_NoEmptyCheck(T, all_tracks, t) == ClusterTracks(T, all_tracks, t)

\* the part of fuse_tracks after the cleanup and the extraction of all_tracks
FuseCandidates(T, all_tracks, t) ==
    IF all_tracks = <<>> THEN Returned(T, <<>>)
    ELSE ClusterTracks(T, all_tracks, t)

\* mutant: the cleanup is left out
fuse_tracks_NoCleanup(T, frames, t) ==
    IF frames = <<>> THEN Returned(T, <<>>)
    ELSE FuseCandidates(T, ExtractAllTracks(frames), t)

fuse_tracks(T, frames, t) ==
    IF frames = <<>> THEN Returned(T, <<>>)
    ELSE FuseCandidates(CleanupOldTids(T, t), ExtractAllTracks(frames), t)

(***************************************************************************)
(* Inputs                                                                  *)
(***************************************************************************)
Radars == <<"Radar1", "Radar2">>

\* lists of at most n tracks of TS in increasing tid order: the on-chip tracker
\* never reports one tid twice in a frame
RECURSIVE TrackLists(_, _)
TrackLists(TS, n) ==
    IF n = 0 THEN {<<>>}
    ELSE LET shorter == TrackLists(TS, n - 1)
         IN  shorter \cup
             {Append(x[1], x[2]) : x \in
                 {y \in shorter \X TS :
                     /\ Len(y[1]) = n - 1
                     /\ \A i \in DOMAIN y[1] : y[1][i].tid < y[2].tid}}

\* frames not yet stamped with their capture time
Frames(name, TS, n) == {MkFrame(name, tracks, 0) : tracks \in TrackLists(TS, n)}

\* frame lists as the scheduler builds them: at most one frame per radar, in
\* configuration order, with at most maxCand tracks in all
FrameLists(TS, n, maxCand) ==
    LET F1 == Frames(Radars[1], TS, n)
        F2 == Frames(Radars[2], TS, n)
    IN  {<<>>} \cup {<<f>> : f \in F1 \cup F2}
        \cup {<<x[1], x[2]>> : x \in
                {y \in F1 \X F2 : Len(y[1].tracks) + Len(y[2].tracks) <= maxCand}}

\* frame['timestamp'] = time.time() of the reader, for each frame of the list
Stamp(frames, ts) == [i \in DOMAIN frames |-> [frames[i] EXCEPT !.timestamp = ts[i]]]

\* the identity specification: one track per radar at one of three positions on a
\* line, the middle one within distance_threshold of both ends, the ends more
\* than distance_threshold apart
IdPositions == {<<1000, 2000, 1500>>, <<1300, 2000, 1500>>, <<1600, 2000, 1500>>}
IdTids == {1}
IdVelocity == <<100, 200, 0>>
IdAcceleration == <<0, 0, 0>>
IdConfidences == {90}

IdTracks ==
    {MkTrack(tid, p, IdVelocity, IdAcceleration, c) :
        tid \in IdTids, p \in IdPositions, c \in IdConfidences}

IdFrameLists == FrameLists(IdTracks, MaxTracks, MaxCand)

\* the merge specification: single calls on a fresh engine, with tracks at the
\* positions of the module's self-test (the first two within distance_threshold),
\* a third position within distance_threshold of the second but not of the
\* first, and the self-test's far position
MergePositions ==
    {<<1000, 2000, 1500>>, <<1100, 2100, 1400>>, <<1500, 2100, 1400>>, <<3000, 4000, 1200>>}
MergeTids == {1, 5}
MergeKinematics ==
    {[vel |-> <<100, 200, 0>>, acc |-> <<0, 0, 0>>, confidence |-> 90],
     [vel |-> <<150, 180, 0>>, acc |-> <<0, 0, 0>>, confidence |-> 85],
     [vel |-> <<-100, 0, 0>>, acc |-> <<20, -10, 0>>, confidence |-> 70]}

MergeTracks ==
    {MkTrack(tid, p, k.vel, k.acc, k.confidence) :
        tid \in MergeTids, p \in MergePositions, k \in MergeKinematics}

MergeFrameLists == FrameLists(MergeTracks, MaxTracks, MaxCand)

(***************************************************************************)
(* The fusion engine as a state machine                                    *)
(***************************************************************************)
\* (radar_name, tid) -> global_tid over the tracks of a returned list
IdsOf(fused) ==
    LET pairs == UNION {{<<fused[i].source_tids[j], fused[i].global_tid>> :
                            j \in DOMAIN fused[i].source_tids} : i \in DOMAIN fused}
    IN  [k \in {pr[1] : pr \in pairs} |-> (CHOOSE pr \in pairs : pr[1] = k)[2]]

\* the processes of main.py
Contexts == Range(Radars) \cup {"Module_FUS", "Module_VIS"}

\* main.py after proc.start(): the flag is set and every process is starting
RunStart ==
    /\ run_flag = TRUE
    /\ ctx = [c \in Contexts |-> "start"]
    /\ coordinator = "joining"
    /\ ctx_errors = [c \in Contexts |-> 0]

\* RadarReader.run before its loop, with nothing sent by the radar yet
ReaderStart ==
    /\ port_buffer = <<>>
    /\ data_buffer = <<>>
    /\ reader_frame_count = 0
    /\ parse_errors = 0
    /\ buffer_offset = 0
    /\ parse_calls = <<>>

\* no stream on the wire
ReaderIdle == ReaderStart /\ wire = <<>> /\ stream_frames = <<>>

\* no packet to write
CodecIdle ==
    /\ codec_tracks = <<>>
    /\ serial_packet = <<>>
    /\ parsed = <<>>
    /\ codec_pc = "done"

\* FuseDualRadar.run before its loop, with the queues of main.py just created
SchedStart ==
    /\ clock = 0
    /\ radar_rd_queue = [i \in DOMAIN Radars |-> <<>>]
    /\ vis_queue = <<>>
    /\ radar_frames_buffer = [name \in Range(Radars) |-> <<>>]
    /\ last_output_time = 0
    /\ frame_count = 0
    /\ total_tracks_processed = 0
    /\ serial_writes = 0
    /\ pc = 1
    /\ published = [i \in DOMAIN Radars |-> 0]
    /\ dequeued = [i \in DOMAIN Radars |-> <<>>]
    /\ ticks = 0
    /\ tick_times = <<>>
    /\ tick_published = [i \in DOMAIN Radars |-> 0]
    /\ fused_numbers = [i \in DOMAIN Radars |-> <<>>]
    /\ iter_published = [i \in DOMAIN Radars |-> 0]

\* a TrackFusion object just constructed
EngineStart ==
    /\ next_global_tid = 1
    /\ radar_to_global_tid = EmptyDict
    /\ global_tid_last_seen = EmptyDict
    /\ now = 0
    /\ radar_frames = <<>>
    /\ fused_tracks = <<>>
    /\ raised = FALSE
    /\ call_time = 0
    /\ pre_next = 1
    /\ pre_map = EmptyDict
    /\ pre_expired = {}
    /\ prev_ids = EmptyDict

Init == EngineStart /\ SchedStart /\ ReaderIdle /\ CodecIdle /\ RunStart

\* mutant: all_tracks holds the track dicts of the frames themselves
TrackCopy_Same(track) == "track"

\* track_copy = track.copy(): the dict that the call writes radar_name and
\* timestamp to, and that _assign_global_tid writes to, is a new one
TrackCopy(track) == "track_copy"

\* the frames passed to a call as they are when it returns: nothing is assigned
\* to a frame or to its list of tracks, and what is written to a track of
\* all_tracks reaches the track of the frame only if it is the same dict
FramesAfterCall(frames) ==
    [f \in DOMAIN frames |->
        [frames[f] EXCEPT !.tracks =
            [j \in DOMAIN frames[f].tracks |->
                IF TrackCopy(frames[f].tracks[j]) = "track_copy"
                THEN frames[f].tracks[j]
                ELSE [radar_name |-> frames[f].radar_name,
                      timestamp |-> frames[f].timestamp] @@ frames[f].tracks[j]]]]

\* one call fusion.fuse_tracks(frames)
FuseTracks(frames) ==
    \E r \in {fuse_tracks(Tables, frames, now)}, ids \in {IdsOf(fused_tracks)} :
        /\ r.T.next <= MaxGid + 1
        /\ next_global_tid' = r.T.next
        /\ radar_to_global_tid' = r.T.map
        /\ global_tid_last_seen' = r.T.seen
        /\ radar_frames' = FramesAfterCall(frames)
        /\ fused_tracks' = r.fused_tracks
        /\ raised' = r.raised
        /\ call_time' = now
        /\ pre_next' = next_global_tid
        /\ pre_map' = radar_to_global_tid
        /\ pre_expired' = OldTids(Tables, now)
        /\ prev_ids' = [k \in {x \in DOMAIN ids :
                                  now - global_tid_last_seen[ids[x]] <= tid_timeout} |-> ids[k]]
        /\ UNCHANGED now

\* one second passes
Tick ==
    /\ now < MaxTime
    /\ now' = now + 1
    /\ UNCHANGED <<next_global_tid, radar_to_global_tid, global_tid_last_seen,
                   radar_frames, fused_tracks, raised, call_time, pre_next, pre_map,
                   pre_expired, prev_ids>>
    /\ UNCHANGED <<sched_vars, reader_vars, codec_vars>>
    /\ UNCHANGED run_vars

Fuse ==
    /\ \E frames \in IdFrameLists : FuseTracks(Stamp(frames, [i \in DOMAIN frames |-> now]))
    /\ UNCHANGED <<sched_vars, reader_vars, codec_vars>>
    /\ UNCHANGED run_vars

Next == Fuse \/ Tick

Spec == Init /\ [][Next]_vars

\* the first call on a fresh engine, at time MergeTime, each frame captured at or before it
InitMerge ==
    /\ next_global_tid = 1
    /\ radar_to_global_tid = EmptyDict
    /\ global_tid_last_seen = EmptyDict
    /\ now = MergeTime
    /\ radar_frames = <<>>
    /\ fused_tracks = <<>>
    /\ raised = FALSE
    /\ call_time = MergeTime
    /\ pre_next = 1
    /\ pre_map = EmptyDict
    /\ pre_expired = {}
    /\ prev_ids = EmptyDict
    /\ SchedStart
    /\ ReaderIdle
    /\ CodecIdle
    /\ RunStart

FuseFresh ==
    /\ next_global_tid = 1
    /\ radar_frames = <<>>
    /\ \E frames \in MergeFrameLists :
           \E ts \in [DOMAIN frames -> (now - 1)..now] : FuseTracks(Stamp(frames, ts))
    /\ UNCHANGED <<sched_vars, reader_vars, codec_vars>>
    /\ UNCHANGED run_vars

NextMerge == FuseFresh

SpecMerge == InitMerge /\ [][NextMerge]_vars

(***************************************************************************)
(* Vocabulary of the properties                                            *)
(***************************************************************************)
\* the candidates of the latest call
Candidates == ExtractAllTracks(radar_frames)

\* (radar_name, tid) -> global_tid in the list returned by the latest call
OutIds == IdsOf(fused_tracks)

\* the keys that occur in the latest call's output and in the output of the call
\* before it, with no identity timeout elapsed between the two calls
SeenTwice == DOMAIN prev_ids \cap DOMAIN OutIds

\* the returned track that lists key k among its sources
TrackOf(k) == fused_tracks[CHOOSE i \in DOMAIN fused_tracks : k \in Range(fused_tracks[i].source_tids)]

IsMerged(ft) == ft.num_radars_detected > 1

\* the mapping as it stood when the latest call processed its first candidate:
\* the mapping at the start of the call without the keys of the timed-out ids
LiveMap == [k \in {x \in DOMAIN pre_map : pre_map[x] \notin pre_expired} |-> pre_map[k]]

\* the global ids mapped, at that moment, from the sources of a returned track
MappedIdsOf(ft) == {LiveMap[k] : k \in Range(ft.source_tids) \cap DOMAIN LiveMap}

\* the ids allocated by the latest call
IsNewId(g) == g >= pre_next /\ g < next_global_tid

\* the candidates of the latest call that are the sources of a returned track, in input order
MembersOf(ft) ==
    SelectIdx(Candidates, {i \in DOMAIN Candidates : Key(Candidates[i]) \in Range(ft.source_tids)})

\* the keys whose global id was timed out when the latest call started
ExpiredKeys == {k \in DOMAIN pre_map : pre_map[k] \in pre_expired}

\* the global ids that occur as values of radar_to_global_tid
MappedIds == {radar_to_global_tid[k] : k \in DOMAIN radar_to_global_tid}

(***************************************************************************)
(* Identity across fusion cycles (specification Spec)                      *)
(***************************************************************************)
\* C1, as stated: a (radar_name, tid) that is in the output of two consecutive
\* fuse_tracks calls, with no identity timeout elapsed between them, has the
\* same global_tid in both outputs, whether it is a singleton or a member of
\* a merged cluster.
C1_SameIdInBothCycles == \A k \in SeenTwice : OutIds[k] = prev_ids[k]

\* C1, amended: it has the same global_tid in both outputs when the second call
\* outputs it as a singleton; as a member of a merged cluster it gets the
\* smallest global_tid mapped from any member of the cluster, which is its
\* previous one or a smaller one.
C1_SameIdUnlessMergedWithOlder ==
    \A k \in SeenTwice :
        IF IsMerged(TrackOf(k))
        THEN /\ OutIds[k] = SetMin(MappedIdsOf(TrackOf(k)))
             /\ OutIds[k] <= prev_ids[k]
        ELSE OutIds[k] = prev_ids[k]

\* a cycle in which a key keeps its id as a member of a merged cluster whose
\* other member was mapped to a different id
C1_Witness ==
    \E k \in SeenTwice :
        /\ IsMerged(TrackOf(k))
        /\ OutIds[k] = prev_ids[k]
        /\ Cardinality(MappedIdsOf(TrackOf(k))) > 1

\* C2, as stated: when a call with at least one frame starts, a global id whose
\* last_seen is more than tid_timeout in the past is removed with all its keys
\* before any candidate is processed, and a key that was mapped to it and is
\* observed in that call receives a newly allocated id.
C2_ExpiredKeyGetsNewId ==
    radar_frames # <<>> =>
        /\ \A g \in pre_expired :
              /\ g \notin DOMAIN global_tid_last_seen
              /\ g \notin MappedIds
              /\ \A i \in DOMAIN fused_tracks : fused_tracks[i].global_tid # g
        /\ \A k \in ExpiredKeys \cap DOMAIN OutIds :
              /\ OutIds[k] # pre_map[k]
              /\ IsNewId(OutIds[k])

\* C2, amended: the expired id and its keys are removed, and a key that was
\* mapped to it receives an id different from the expired one: a newly
\* allocated id, unless it is merged with a track whose key is mapped to a live
\* id, in which case it receives the smallest such id.
C2_ExpiredKeyGetsOtherId ==
    radar_frames # <<>> =>
        /\ \A g \in pre_expired :
              /\ g \notin DOMAIN global_tid_last_seen
              /\ g \notin MappedIds
              /\ \A i \in DOMAIN fused_tracks : fused_tracks[i].global_tid # g
        /\ \A k \in ExpiredKeys \cap DOMAIN OutIds :
              /\ OutIds[k] # pre_map[k]
              /\ IF MappedIdsOf(TrackOf(k)) = {}
                 THEN IsNewId(OutIds[k])
                 ELSE IsMerged(TrackOf(k)) /\ OutIds[k] = SetMin(MappedIdsOf(TrackOf(k)))

\* a call that purged an id and gave a new id to a key that was mapped to it
C2_Witness ==
    /\ radar_frames # <<>>
    /\ \E k \in ExpiredKeys \cap DOMAIN OutIds : IsNewId(OutIds[k])

\* C3, as stated: the global ids that are values of radar_to_global_tid are
\* exactly the keys of global_tid_last_seen.
C3_TablesAgree == MappedIds = DOMAIN global_tid_last_seen

\* C3, amended: every mapped global id has a last_seen entry; a last_seen entry
\* whose keys a merge has re-pointed to a smaller id stays, with no key mapped to
\* it, until the timeout purges it.
C3_MappedIdsHaveLastSeen == MappedIds \subseteq DOMAIN global_tid_last_seen

\* a mapped id next to a last_seen entry that no key maps to any more
C3_Witness ==
    /\ MappedIds # {}
    /\ \E g \in DOMAIN global_tid_last_seen : g \notin MappedIds

C9_EmptyInputEmptyOutput ==
    (\A i \in DOMAIN radar_frames : radar_frames[i].tracks = <<>>) =>
        fused_tracks = <<>> /\ ~raised

\* a call with a frame from each radar, both without tracks, on a non-empty table
C9_Witness ==
    /\ Len(radar_frames) = 2
    /\ \A i \in DOMAIN radar_frames : radar_frames[i].tracks = <<>>
    /\ pre_map # EmptyDict

\* C10: next_global_tid never decreases; the ids a call allocates are the
\* counter values from the one at its start up to the one at its end, each
\* given to one returned track, and they are greater than every id in the
\* tables at the start of the call; every id in the tables is below the counter.
C10_IdsNeverReused ==
    /\ pre_next <= next_global_tid
    /\ \A g \in MappedIds \cup DOMAIN global_tid_last_seen : g < next_global_tid
    /\ \A k \in DOMAIN pre_map : pre_map[k] < pre_next
    /\ \A g \in pre_next..(next_global_tid - 1) :
          Cardinality({i \in DOMAIN fused_tracks : fused_tracks[i].global_tid = g}) = 1
    /\ \A i \in DOMAIN fused_tracks : fused_tracks[i].global_tid < next_global_tid

\* a call that allocated an id after an earlier id had been purged
C10_Witness ==
    /\ pre_expired # {}
    /\ next_global_tid > pre_next
    /\ pre_next > 1

(***************************************************************************)
(* One fusion cycle (specification SpecMerge)                              *)
(***************************************************************************)
Axes == {"posX", "posY", "posZ", "velX", "velY", "velZ", "accX", "accY", "accZ"}

\* sum of confidence_i * value_i over the first n tracks of a list
RECURSIVE ConfidenceWeightedSum(_, _, _)
ConfidenceWeightedSum(tracks, f, n) ==
    IF n = 0 THEN 0
    ELSE ConfidenceWeightedSum(tracks, f, n - 1) + tracks[n].confidence * tracks[n][f]

\* sum of field f over the first n tracks of a list
RECURSIVE FieldSum(_, _, _)
FieldSum(tracks, f, n) ==
    IF n = 0 THEN 0 ELSE FieldSum(tracks, f, n - 1) + tracks[n][f]

\* a fraction rounded to the nearest integer (the value in metres rounded to three decimals)
RoundMilli(q) == (2 * q.num + q.den) \div (2 * q.den)

\* C4: every candidate is a source of exactly one returned track, no returned
\* track is without sources, and the num_radars_detected of the returned
\* tracks add up to the number of candidates.
C4_ClustersPartitionCandidates ==
    /\ ~raised
    /\ \A i \in DOMAIN fused_tracks :
          /\ fused_tracks[i].num_radars_detected >= 1
          /\ Len(fused_tracks[i].source_tids) = fused_tracks[i].num_radars_detected
    /\ \A j \in DOMAIN Candidates :
          Cardinality({i \in DOMAIN fused_tracks :
                          Key(Candidates[j]) \in Range(fused_tracks[i].source_tids)}) = 1
    /\ FieldSum(fused_tracks, "num_radars_detected", Len(fused_tracks)) = Len(Candidates)

\* three candidates in two clusters, the single one within distance_threshold of
\* a member of the pair that was formed before it
C4_Witness ==
    /\ Len(Candidates) = 3
    /\ Len(fused_tracks) = 2
    /\ IsMerged(fused_tracks[1])
    /\ \E j \in DOMAIN Candidates :
          /\ Key(Candidates[j]) \in Range(fused_tracks[1].source_tids)
          /\ IsClose(Pos(Candidates[j]), Pos(fused_tracks[2]))

\* C5: for a merged cluster each position, velocity and acceleration component is
\* the mean of the members' values weighted by confidence_i / sum of confidences,
\* the confidence is the largest member confidence, the timestamp is the mean of
\* the member timestamps, and source_tids lists every member's (radar_name, tid).
C5_MergedIsWeightedMean ==
    \A i \in DOMAIN fused_tracks :
        LET ft == fused_tracks[i]
            ms == MembersOf(ft)
            n  == Len(ms)
        IN  IsMerged(ft) =>
              /\ n = ft.num_radars_detected
              /\ \A f \in Axes :
                    /\ ft[f].den # 0
                    /\ ft[f].num * FieldSum(ms, "confidence", n)
                          = ft[f].den * ConfidenceWeightedSum(ms, f, n)
              /\ \A j \in 1..n : ft.confidence >= ms[j].confidence
              /\ \E j \in 1..n : ft.confidence = ms[j].confidence
              /\ ft.timestamp.den # 0
              /\ ft.timestamp.num * n = ft.timestamp.den * FieldSum(ms, "timestamp", n)
              /\ ft.source_tids = [j \in 1..n |-> Key(ms[j])]
              /\ ft.source_radars = [j \in 1..n |-> ms[j].radar_name]

\* a cluster of three members whose weighted mean differs from the plain mean
\* and whose members were captured at different times
C5_Witness ==
    \E i \in DOMAIN fused_tracks :
        LET ft == fused_tracks[i]
            ms == MembersOf(ft)
        IN  /\ ft.num_radars_detected = 3
            /\ ft.posX.num * 3 # ft.posX.den * FieldSum(ms, "posX", 3)
            /\ ms[1].timestamp # ms[3].timestamp

\* C7: one frame with one track fuses to one returned track with the track's
\* position, velocity, acceleration and confidence, one source radar and
\* num_radars_detected = 1.
C7_SingleTrackPassesThrough ==
    (Len(radar_frames) = 1 /\ Len(radar_frames[1].tracks) = 1) =>
        /\ Len(fused_tracks) = 1
        /\ Pos(fused_tracks[1]) = Pos(radar_frames[1].tracks[1])
        /\ Vel(fused_tracks[1]) = Vel(radar_frames[1].tracks[1])
        /\ Acc(fused_tracks[1]) = Acc(radar_frames[1].tracks[1])
        /\ fused_tracks[1].confidence = radar_frames[1].tracks[1].confidence
        /\ fused_tracks[1].source_radars = <<radar_frames[1].radar_name>>
        /\ fused_tracks[1].num_radars_detected = 1

\* a call with one frame of the second radar holding one track
C7_Witness ==
    /\ Len(radar_frames) = 1
    /\ radar_frames[1].radar_name = Radars[2]
    /\ Len(radar_frames[1].tracks) = 1
    /\ Len(fused_tracks) = 1

\* the worked example: Radar A reports tid 1 at (1.0, 2.0, 1.5) with confidence
\* 0.9, Radar B reports tid 5 at (1.1, 2.1, 1.4) with confidence 0.85
C8_Example ==
    /\ Len(radar_frames) = 2
    /\ Len(radar_frames[1].tracks) = 1
    /\ Len(radar_frames[2].tracks) = 1
    /\ radar_frames[1].tracks[1].tid = 1
    /\ Pos(radar_frames[1].tracks[1]) = <<1000, 2000, 1500>>
    /\ radar_frames[1].tracks[1].confidence = 90
    /\ radar_frames[2].tracks[1].tid = 5
    /\ Pos(radar_frames[2].tracks[1]) = <<1100, 2100, 1400>>
    /\ radar_frames[2].tracks[1].confidence = 85

C8_OneTrackFromBoth ==
    /\ Len(fused_tracks) = 1
    /\ Range(fused_tracks[1].source_radars) = {Radars[1], Radars[2]}
    /\ fused_tracks[1].confidence = 90

C8_RoundedPosition ==
    <<RoundMilli(fused_tracks[1].posX), RoundMilli(fused_tracks[1].posY),
      RoundMilli(fused_tracks[1].posZ)>>

\* C8, as stated: the worked example yields one track from both radars with
\* confidence 0.9 and position (1.048, 2.048, 1.447) to three decimals.
C8_ExampleAsStated ==
    C8_Example => C8_OneTrackFromBoth /\ C8_RoundedPosition = <<1048, 2048, 1447>>

\* C8, amended: the worked example yields one track from both radars with
\* confidence 0.9 and position (1.049, 2.049, 1.451) to three decimals.
C8_ExampleComputed ==
    C8_Example => C8_OneTrackFromBoth /\ C8_RoundedPosition = <<1049, 2049, 1451>>

\* the worked example has been fused
C8_Witness == C8_Example /\ Len(fused_tracks) = 1 /\ ~raised

(***************************************************************************)
(* FuseDualRadar.run (src/library/visualizer_dual_tracks.py) with the      *)
(* queues of src/main.py                                                   *)
(*                                                                         *)
(* The radar readers, the fuser and the visualizer are separate processes; *)
(* they share only the queues.  One loop iteration of run is split at the  *)
(* points where another process can act in between: one step per queue     *)
(* polled, one step for the tick test with everything it triggers.         *)
(* Time is the variable clock, in milliseconds; the engine reads the same  *)
(* clock in whole seconds (now).                                           *)
(***************************************************************************)
output_period == 50             \* milliseconds (1.0 / 20 s)
radar_rd_queue_maxsize == 0     \* Manager().Queue(): no maxsize given
vis_queue_maxsize == 0          \* Manager().Queue(): no maxsize given

MaxClock == 100                 \* the clock runs from 0 to MaxClock
TimeStep == 25                  \* the clock advances in steps of TimeStep
MaxFrames == 2                  \* frames one radar publishes in a run

\* queue.Queue: maxsize <= 0 means the queue has no limit
QueueFull(q, maxsize) == maxsize > 0 /\ Len(q) >= maxsize

QueueEmpty(q) == q = <<>>

QueueGet_Newest(q) == [item |-> q[Len(q)], rest |-> SubSeq(q, 1, Len(q) - 1)]

QueueGet_Peek(q) == [item |-> Head(q), rest |-> q]

\* queue.get(block=False) on a queue that is not empty
QueueGet(q) == [item |-> Head(q), rest |-> Tail(q)]

\* put_nowait inside try/except: the item is dropped when the queue is full
PutNowait(q, maxsize, item) == IF QueueFull(q, maxsize) THEN q ELSE Append(q, item)

\* the frame dict a reader puts on its queue
FrameDict(name, frame_number, tracks, ts) ==
    [frame_number |-> frame_number, num_tracks |-> Len(tracks)] @@ MkFrame(name, tracks, ts)

\* what radar i sees in the scheduler specification: one target, seen by the two
\* radars at positions within distance_threshold of each other
SchedPositions == <<<<1000, 2000, 1500>>, <<1300, 2000, 1500>>>>

SchedTrackLists(i) ==
    {<<MkTrack(tid, SchedPositions[i], IdVelocity, IdAcceleration, c)>> :
        tid \in IdTids, c \in IdConfidences}

StoreFrame_Append(buffer, frame) ==
    [buffer EXCEPT ![frame.radar_name] = @ \o <<frame>>]

\* radar_frames_buffer[frame['radar_name']] = frame
StoreFrame(buffer, frame) == [buffer EXCEPT ![frame.radar_name] = <<frame>>]

\* [f for f in radar_frames_buffer.values() if f is not None]: dict order is
\* the order of RADAR_CFG_LIST
AvailableFrames(buffer) ==
    LET F[k \in 0..Len(Radars)] ==
            IF k = 0 THEN <<>> ELSE F[k - 1] \o buffer[Radars[k]]
    IN  F[Len(Radars)]

TickDue_Always(current_time, last) == TRUE

\* current_time - last_output_time >= output_period
TickDue(current_time, last) == current_time - last >= output_period

\* the frame number held by the slot of radar i, 0 for an empty slot
SlotNumber(buffer, i) ==
    IF buffer[Radars[i]] = <<>> THEN 0 ELSE buffer[Radars[i]][Len(buffer[Radars[i]])].frame_number

\* a reader publishes its next frame: radar_rd_queue.put(frame_dict) blocks
\* while the queue is full
ReaderPut(i) ==
    /\ published[i] < MaxFrames
    /\ ~QueueFull(radar_rd_queue[i], radar_rd_queue_maxsize)
    /\ \E tracks \in SchedTrackLists(i) :
           radar_rd_queue' = [radar_rd_queue EXCEPT ![i] =
               Append(@, FrameDict(Radars[i], published[i] + 1, tracks, now))]
    /\ published' = [published EXCEPT ![i] = @ + 1]
    /\ UNCHANGED <<reader_vars, codec_vars>>
    /\ UNCHANGED <<fusion_vars, clock, vis_queue, radar_frames_buffer, last_output_time,
                   frame_count, total_tracks_processed, serial_writes, pc, dequeued,
                   ticks, tick_times, tick_published, fused_numbers, iter_published>>
    /\ UNCHANGED run_vars

PollQueue_Blocking ==
    /\ pc \in DOMAIN radar_rd_queue
    /\ pc' = pc + 1
    /\ iter_published' = IF pc = 1 THEN published ELSE iter_published
    /\ ~QueueEmpty(radar_rd_queue[pc])
    /\ \E g \in {QueueGet(radar_rd_queue[pc])} :
           /\ radar_rd_queue' = [radar_rd_queue EXCEPT ![pc] = g.rest]
           /\ radar_frames_buffer' = StoreFrame(radar_frames_buffer, g.item)
           /\ dequeued' = [dequeued EXCEPT ![pc] = Append(@, g.item.frame_number)]
    /\ UNCHANGED <<reader_vars, codec_vars>>
    /\ UNCHANGED <<fusion_vars, clock, vis_queue, last_output_time, frame_count,
                   total_tracks_processed, serial_writes, published, ticks, tick_times,
                   tick_published, fused_numbers>>
    /\ UNCHANGED run_vars

\* the body of `for i, queue in enumerate(self.radar_rd_queue_list)` for queue pc
PollQueue ==
    /\ pc \in DOMAIN radar_rd_queue
    /\ pc' = pc + 1
    /\ iter_published' = IF pc = 1 THEN published ELSE iter_published
    /\ IF ~QueueEmpty(radar_rd_queue[pc])
       THEN \E g \in {QueueGet(radar_rd_queue[pc])} :
                /\ radar_rd_queue' = [radar_rd_queue EXCEPT ![pc] = g.rest]
                /\ radar_frames_buffer' = StoreFrame(radar_frames_buffer, g.item)
                /\ dequeued' = [dequeued EXCEPT ![pc] = Append(@, g.item.frame_number)]
       ELSE UNCHANGED <<radar_rd_queue, radar_frames_buffer, dequeued>>
    /\ UNCHANGED <<reader_vars, codec_vars>>
    /\ UNCHANGED <<fusion_vars, clock, vis_queue, last_output_time, frame_count,
                   total_tracks_processed, serial_writes, published, ticks, tick_times,
                   tick_published, fused_numbers>>
    /\ UNCHANGED run_vars

\* `if fused_tracks:` after a fuse_tracks call that returned: write the packet
\* (a failed serial write is caught inside _output_to_serial), put the list on
\* vis_queue, update the statistics
PublishFused ==
    IF fused_tracks' # <<>>
    THEN /\ \E written \in BOOLEAN :
                serial_writes' = IF written THEN serial_writes + 1 ELSE serial_writes
         /\ vis_queue' = PutNowait(vis_queue, vis_queue_maxsize, fused_tracks')
         /\ total_tracks_processed' = total_tracks_processed + Len(fused_tracks')
         /\ frame_count' = frame_count + 1
    ELSE UNCHANGED <<serial_writes, vis_queue, total_tracks_processed, frame_count>>

\* mutant: fuse_tracks is called and its result published on every tick
RunCycle_FuseAlways ==
    \E available_frames \in {AvailableFrames(radar_frames_buffer)} :
        /\ FuseTracks(available_frames)
        /\ tick_times' = Append(tick_times, clock)
        /\ serial_writes' = serial_writes + 1
        /\ vis_queue' = PutNowait(vis_queue, vis_queue_maxsize, fused_tracks')
        /\ total_tracks_processed' = total_tracks_processed + Len(fused_tracks')
        /\ frame_count' = frame_count + 1
        /\ last_output_time' = clock
        /\ ticks' = ticks + 1
        /\ tick_published' = published
        /\ fused_numbers' = [i \in DOMAIN Radars |->
                                Append(fused_numbers[i], SlotNumber(radar_frames_buffer, i))]

\* the body of `if current_time - last_output_time >= output_period`
RunCycle ==
    \E available_frames \in {AvailableFrames(radar_frames_buffer)} :
        /\ IF available_frames # <<>>
           THEN /\ FuseTracks(available_frames)
                /\ tick_times' = Append(tick_times, clock)
                /\ IF raised'
                   THEN UNCHANGED <<serial_writes, vis_queue, total_tracks_processed,
                                    frame_count, last_output_time>>
                   ELSE PublishFused /\ last_output_time' = clock
           ELSE /\ last_output_time' = clock
                /\ UNCHANGED <<fusion_vars, tick_times, serial_writes, vis_queue,
                               total_tracks_processed, frame_count>>
        /\ ticks' = ticks + 1
        /\ tick_published' = published
        /\ fused_numbers' = [i \in DOMAIN Radars |->
                                Append(fused_numbers[i], SlotNumber(radar_frames_buffer, i))]

\* mutant: the slots are emptied after a cycle
SlotsAfterCycle_Reset(buffer) == [name \in DOMAIN buffer |-> <<>>]

\* radar_frames_buffer after a cycle: nothing in the cycle assigns to it
SlotsAfterCycle(buffer) == buffer

\* the rest of the loop body: read the clock, run a cycle when one is due
TickTest ==
    /\ pc = Len(Radars) + 1
    /\ pc' = 1
    /\ IF TickDue(clock, last_output_time)
       THEN RunCycle
       ELSE UNCHANGED <<fusion_vars, vis_queue, last_output_time, frame_count,
                        total_tracks_processed, serial_writes, ticks, tick_times,
                        tick_published, fused_numbers>>
    /\ radar_frames_buffer' = IF TickDue(clock, last_output_time)
                              THEN SlotsAfterCycle(radar_frames_buffer)
                              ELSE radar_frames_buffer
    /\ UNCHANGED <<reader_vars, codec_vars>>
    /\ UNCHANGED <<clock, radar_rd_queue, published, dequeued, iter_published>>
    /\ UNCHANGED run_vars

\* the visualizer takes one fused list: vis_rd_queue.get(timeout=0.05)
VisGet ==
    /\ ~QueueEmpty(vis_queue)
    /\ vis_queue' = QueueGet(vis_queue).rest
    /\ UNCHANGED <<reader_vars, codec_vars>>
    /\ UNCHANGED <<fusion_vars, clock, radar_rd_queue, radar_frames_buffer,
                   last_output_time, frame_count, total_tracks_processed, serial_writes,
                   pc, published, dequeued, ticks, tick_times, tick_published,
                   fused_numbers, iter_published>>
    /\ UNCHANGED run_vars

\* time passes
ClockTick ==
    /\ clock + TimeStep <= MaxClock
    /\ clock' = clock + TimeStep
    /\ now' = clock' \div 1000
    /\ UNCHANGED <<next_global_tid, radar_to_global_tid, global_tid_last_seen,
                   radar_frames, fused_tracks, raised, call_time, pre_next, pre_map,
                   pre_expired, prev_ids>>
    /\ UNCHANGED <<reader_vars, codec_vars>>
    /\ UNCHANGED <<radar_rd_queue, vis_queue, radar_frames_buffer, last_output_time,
                   frame_count, total_tracks_processed, serial_writes, pc, published,
                   dequeued, ticks, tick_times, tick_published, fused_numbers, iter_published>>
    /\ UNCHANGED run_vars

Publish == \E i \in DOMAIN Radars : ReaderPut(i)

NextSched == ClockTick \/ Publish \/ PollQueue \/ TickTest \/ VisGet

SpecSched == Init /\ [][NextSched]_vars

\* Fairness.  The fuser process keeps running its loop: nothing in the loop body
\* waits for another process, so a step that is possible is eventually taken; and
\* time passes.  The readers and the visualizer may stop at any point.  The tick
\* step is the one step that takes pc from Len(Radars) + 1 back to 1.
TickAdvance == pc = Len(Radars) + 1 /\ pc' = 1

SpecSchedLive ==
    Init /\ [][NextSched]_vars /\ WF_vars(PollQueue) /\ WF_pc(TickAdvance) /\ WF_vars(ClockTick)

(***************************************************************************)
(* Claims about the scheduler (specification SpecSched)                    *)
(***************************************************************************)
Last(s) == s[Len(s)]

\* C11: at every tick boundary, the frame fused for a radar is the most recent
\* frame that radar had put on its queue before the tick.  Stated in its weakest
\* reading, which leaves the scheduler the whole loop iteration to pick frames
\* up: the frame fused is not older than the newest frame the radar had
\* published when the iteration of the tick began.
C11_FusesLatestPublished ==
    ticks > 0 /\ pc = 1 =>
        \A i \in DOMAIN Radars : Last(fused_numbers[i]) >= iter_published[i]

\* C12: two consecutive fuse_tracks calls of the scheduler are at least one
\* output period apart, so the number of fusion cycles is bounded by the elapsed
\* time and the number of published batches by the number of cycles, however many
\* frames the radars have published
C12_CyclesOnePeriodApart ==
    /\ \A k \in 2..Len(tick_times) : tick_times[k] - tick_times[k - 1] >= output_period
    /\ Len(tick_times) * output_period <= clock
    /\ frame_count <= Len(tick_times)
    /\ Len(vis_queue) <= frame_count

\* two cycles have run and the radars have published more frames than that
C12_Witness ==
    /\ Len(tick_times) >= 2
    /\ published[1] + published[2] > Len(tick_times)
    /\ frame_count = 2

\* C13: the scheduler never waits on a radar queue: the poll of a queue is
\* always possible; polling an empty queue moves on to the next step with the slots
\* unchanged; a tick that has fallen due is taken, and a first tick is reached,
\* also in the runs in which a radar never publishes
C13_EmptyPollKeepsSlot ==
    pc \in DOMAIN radar_rd_queue /\ QueueEmpty(radar_rd_queue[pc]) /\ pc' # pc
        => pc' = pc + 1 /\ radar_frames_buffer' = radar_frames_buffer

C13_NeverBlocks ==
    /\ [](pc \in DOMAIN radar_rd_queue => ENABLED PollQueue)
    /\ [][C13_EmptyPollKeepsSlot]_vars
    /\ (TickDue(clock, last_output_time) ~> ~TickDue(clock, last_output_time))
    /\ <>(ticks >= 1)

\* a tick boundary has been passed although no radar has published anything
C13_Witness ==
    /\ ticks >= 1
    /\ \A i \in DOMAIN Radars : published[i] = 0
    /\ pc = 2

\* the frames of radar i in a frame list, as frame numbers
NumbersOf(frames, i) ==
    {frames[k].frame_number : k \in {j \in DOMAIN frames : frames[j].radar_name = Radars[i]}}

\* C14 as stated: no frame is an input of fuse_tracks in two different cycles
C14_ConsumedByOneCycle ==
    \A i \in DOMAIN Radars :
        \A k, l \in DOMAIN fused_numbers[i] :
            k < l /\ fused_numbers[i][k] # 0 => fused_numbers[i][l] # fused_numbers[i][k]

\* C14 as amended: a frame is taken from its queue at most once; the input of a
\* cycle is, for each radar, the one frame its slot holds at that tick (a frame
\* taken from the queue earlier), and since a cycle leaves the slots alone a
\* frame is an input of every cycle that runs until a newer frame of its radar
\* is taken from the queue: of none, of one or of several consecutive cycles
C14_ConsumedWhileInSlot ==
    \A i \in DOMAIN Radars :
        /\ \A k, l \in DOMAIN dequeued[i] : k < l => dequeued[i][k] # dequeued[i][l]
        /\ \A k \in DOMAIN fused_numbers[i] :
               /\ fused_numbers[i][k] # 0 => fused_numbers[i][k] \in Range(dequeued[i])
               /\ k > 1 => fused_numbers[i][k - 1] <= fused_numbers[i][k]
        /\ (ticks > 0 /\ \E j \in DOMAIN Radars : Last(fused_numbers[j]) # 0)
               => /\ NumbersOf(radar_frames, i) = {Last(fused_numbers[i])} \ {0}
                  /\ Len(radar_frames) =
                         Cardinality({j \in DOMAIN Radars : Last(fused_numbers[j]) # 0})

\* one frame has been the input of two cycles, and another frame of none
C14_Witness ==
    /\ Len(fused_numbers[1]) >= 2
    /\ fused_numbers[1][1] # 0
    /\ fused_numbers[1][2] = fused_numbers[1][1]
    /\ dequeued[2] = <<1, 2>>
    /\ fused_numbers[2][1] = 0
    /\ fused_numbers[2][2] = 2

\* C16: the number of frames waiting in a radar queue and the number of batches
\* waiting in the fused-output queue stay below a fixed bound.  A fixed bound is
\* in particular below the number of frames a radar publishes, and below the
\* number of cycles, in a run that is long enough; here the run of the model.
C16_QueuesBounded ==
    /\ \A i \in DOMAIN Radars : Len(radar_rd_queue[i]) < MaxFrames
    /\ Len(vis_queue) < MaxClock \div output_period

\* C17: the frames of a radar enter its slot in the order in which the radar
\* published them: the k-th frame taken into the slot is the k-th frame
\* published, and the slot holds the latest of them
C17_SlotFollowsPublicationOrder ==
    \A i \in DOMAIN Radars :
        /\ \A k \in DOMAIN dequeued[i] : dequeued[i][k] = k
        /\ SlotNumber(radar_frames_buffer, i) = Len(dequeued[i])

\* a second frame has replaced the first one in a slot, after both had been
\* waiting in the queue together
C17_Witness ==
    /\ dequeued[1] = <<1, 2>>
    /\ iter_published[1] = 2
    /\ Len(fused_numbers[1]) = 0
    /\ SlotNumber(radar_frames_buffer, 1) = 2

(***************************************************************************)
(* Bytes, struct.pack and struct.unpack                                    *)
(*                                                                         *)
(* A bytes object is a sequence of integers 0..255.  A Python float x of   *)
(* the wire-format code is kept as the integer x * 2^24 (One stands for    *)
(* 1.0), which covers the floats between -128 and 128 that are multiples   *)
(* of 2^-24.  Such a float has an IEEE-754 single-precision encoding only  *)
(* when it has at most 24 significant bits; struct.pack('<f', x) rounds    *)
(* the others to the nearest such value, ties to even.  The readers run on *)
(* little-endian machines, where the native formats 'I' and 'f' of the     *)
(* parser are '<I' and '<f'.                                               *)
(***************************************************************************)
One == 2^24

\* the result of unpacking four bytes that encode a float outside the range of
\* the model (or not a multiple of 2^-24)
OtherFloat == 0 - 2^30

\* unsigned values of 2^30 and more are kept as 2^30: far beyond every length
\* and every id of the model
BigUint == 2^30

\* bytes[a:b] (0-based, end clamped to the length)
Slice(s, a, b) ==
    LET hi == IF b < Len(s) THEN b ELSE Len(s)
    IN  IF a >= hi THEN <<>> ELSE SubSeq(s, a + 1, hi)

\* concatenation of a sequence of byte strings
Concat(parts) ==
    LET F[k \in 0..Len(parts)] == IF k = 0 THEN <<>> ELSE F[k - 1] \o parts[k]
    IN  F[Len(parts)]

PackU32_BigEndian(n) ==
    <<(n \div 16777216) % 256, (n \div 65536) % 256, (n \div 256) % 256, n % 256>>

\* struct.pack('<I', n) for 0 <= n < 2^31
PackU32(n) ==
    <<n % 256, (n \div 256) % 256, (n \div 65536) % 256, (n \div 16777216) % 256>>

\* struct.unpack('I', b)[0] for four bytes b
UnpackU32(b) ==
    IF b[4] >= 64 THEN BigUint
    ELSE b[1] + 256 * b[2] + 65536 * b[3] + 16777216 * b[4]

\* the position of the leading one bit of v > 0
TopBit(v) == CHOOSE k \in 0..30 : 2^k <= v /\ (k = 30 \/ v < 2^(k + 1))

\* v >= 0 rounded to 24 significant bits, ties to even
RoundTo24(v) ==
    IF v < 2^24 THEN v
    ELSE LET q == 2^(TopBit(v) - 23)
             lo == (v \div q) * q
             r == v - lo
         IN  IF 2 * r < q THEN lo
             ELSE IF 2 * r > q THEN lo + q
             ELSE IF (v \div q) % 2 = 0 THEN lo ELSE lo + q

Float32_Exact(x) == x

\* the single-precision value nearest to x
Float32(x) == IF x < 0 THEN 0 - RoundTo24(0 - x) ELSE RoundTo24(x)

\* struct.pack('<f', x): sign bit, 8 exponent bits (bias 127), 23 fraction bits
PackF(x) ==
    LET v == IF x < 0 THEN RoundTo24(0 - x) ELSE RoundTo24(x)
        top == TopBit(v)
        m == IF top >= 23 THEN v \div (2^(top - 23)) ELSE v * (2^(23 - top))
        bits == (top + 103) * (2^23) + (m - 2^23)
        sign == IF x < 0 THEN 128 ELSE 0
    IN  IF v = 0 THEN <<0, 0, 0, 0>>
        ELSE <<bits % 256, (bits \div 256) % 256, (bits \div 65536) % 256,
               (bits \div 16777216) + sign>>

\* struct.unpack('f', b)[0] for four bytes b
UnpackF(b) ==
    LET bits == b[1] + 256 * b[2] + 65536 * b[3] + 16777216 * (b[4] % 128)
        e == bits \div (2^23)
        m == 2^23 + (bits % (2^23))
        v == IF e >= 126 THEN m * (2^(e - 126)) ELSE m \div (2^(126 - e))
    IN  IF bits = 0 THEN 0
        ELSE IF e > 132 \/ e < 103 \/ (e < 126 /\ m % (2^(126 - e)) # 0) THEN OtherFloat
        ELSE IF b[4] >= 128 THEN 0 - v ELSE v

(***************************************************************************)
(* The wire format: FuseDualRadar._output_to_serial and _build_tlv_1010    *)
(* (src/library/visualizer_dual_tracks.py), RadarReader._parse_tlv_1010_*  *)
(* (src/library/radar_reader_dual_1010.py)                                 *)
(***************************************************************************)
MAGIC_WORD == <<2, 1, 4, 3, 6, 5, 8, 7>>
HEADER_LENGTH == 40
TARGET_SIZE == 112
TLV_TYPE_TRACKER_PROC_TARGET_LIST == 1010
PlatformId == 682051            \* 0xA6843

\* struct.pack('<I', 0xA1642333)
VersionBytes == <<51, 35, 100, 161>>

\* dict.get(field, default)
GetOr(d, field, default) == IF field \in DOMAIN d THEN d[field] ELSE default

\* the 4x4 error covariance block, 16 floats: ec_scale = (1.0 - conf) * 0.1 on
\* the first three diagonal places, ec_scale * 0.5 on the fourth (computed here
\* to the resolution of the model; the parser does not read the block)
ErrorCovariance(track) ==
    LET conf == GetOr(track, "confidence", One \div 2)
        ec_scale == (One - conf) \div 10
        at(k) == IF k \in {1, 6, 11} THEN ec_scale
                 ELSE IF k = 16 THEN ec_scale \div 2 ELSE 0
    IN  Concat([k \in 1..16 |-> PackF(at(k))])

TrackData_NoCovariance(track) ==
    Concat(<<PackU32(GetOr(track, "global_tid", 0)),
             PackF(track.posX), PackF(track.posY), PackF(track.posZ),
             PackF(track.velX), PackF(track.velY), PackF(track.velZ),
             PackF(track.accX), PackF(track.accY), PackF(track.accZ),
             PackF(GetOr(track, "gating_gain", One)),
             PackF(track.confidence)>>)

\* the 112 bytes of one track
TrackData(track) ==
    Concat(<<PackU32(GetOr(track, "global_tid", 0)),
             PackF(track.posX), PackF(track.posY), PackF(track.posZ),
             PackF(track.velX), PackF(track.velY), PackF(track.velZ),
             PackF(track.accX), PackF(track.accY), PackF(track.accZ),
             ErrorCovariance(track),
             PackF(GetOr(track, "gating_gain", One)),
             PackF(track.confidence)>>)

\* _build_tlv_1010
BuildTlv1010(tracks) == Concat([i \in DOMAIN tracks |-> TrackData(tracks[i])])

\* the packet _output_to_serial writes: marker, 32 bytes of header, the header
\* of the one TLV, its data
OutputPacket(tracks, frame_number, time_cpu) ==
    LET tlv_data == BuildTlv1010(tracks)
        total_length == 40 + 8 + Len(tlv_data)
    IN  Concat(<<MAGIC_WORD,
                 VersionBytes, PackU32(total_length), PackU32(PlatformId),
                 PackU32(frame_number), PackU32(time_cpu), PackU32(Len(tracks)),
                 PackU32(1), PackU32(0),
                 PackU32(TLV_TYPE_TRACKER_PROC_TARGET_LIST), PackU32(Len(tlv_data)),
                 tlv_data>>)

ParseTarget_SwappedTail(target_data) ==
    [tid |-> UnpackU32(Slice(target_data, 0, 4)),
     posX |-> UnpackF(Slice(target_data, 4, 8)),
     posY |-> UnpackF(Slice(target_data, 8, 12)),
     posZ |-> UnpackF(Slice(target_data, 12, 16)),
     velX |-> UnpackF(Slice(target_data, 16, 20)),
     velY |-> UnpackF(Slice(target_data, 20, 24)),
     velZ |-> UnpackF(Slice(target_data, 24, 28)),
     accX |-> UnpackF(Slice(target_data, 28, 32)),
     accY |-> UnpackF(Slice(target_data, 32, 36)),
     accZ |-> UnpackF(Slice(target_data, 36, 40)),
     gating_gain |-> UnpackF(Slice(target_data, 108, 112)),
     confidence |-> UnpackF(Slice(target_data, 104, 108))]

\* the track dict decoded from one 112-byte target
ParseTarget(target_data) ==
    [tid |-> UnpackU32(Slice(target_data, 0, 4)),
     posX |-> UnpackF(Slice(target_data, 4, 8)),
     posY |-> UnpackF(Slice(target_data, 8, 12)),
     posZ |-> UnpackF(Slice(target_data, 12, 16)),
     velX |-> UnpackF(Slice(target_data, 16, 20)),
     velY |-> UnpackF(Slice(target_data, 20, 24)),
     velZ |-> UnpackF(Slice(target_data, 24, 28)),
     accX |-> UnpackF(Slice(target_data, 28, 32)),
     accY |-> UnpackF(Slice(target_data, 32, 36)),
     accZ |-> UnpackF(Slice(target_data, 36, 40)),
     gating_gain |-> UnpackF(Slice(target_data, 104, 108)),
     confidence |-> UnpackF(Slice(target_data, 108, 112))]

\* _parse_tlv_1010_data: len(tlv_data) // 112 targets, a trailing part is dropped
ParseTlv1010Data(tlv_data) ==
    [i \in 1..(Len(tlv_data) \div TARGET_SIZE) |->
        ParseTarget(Slice(tlv_data, (i - 1) * TARGET_SIZE, i * TARGET_SIZE))]

\* mutant: a record that runs past the end of the data is skipped and the walk
\* goes on behind its header
RECURSIVE TlvLoop_SkipOverrun(_, _, _, _)
TlvLoop_SkipOverrun(data, n, tlv_start, tracks) ==
    IF n = 0 \/ tlv_start + 8 > Len(data) THEN tracks
    ELSE LET tlv_type == UnpackU32(Slice(data, tlv_start, tlv_start + 4))
             tlv_length == UnpackU32(Slice(data, tlv_start + 4, tlv_start + 8))
             tlv_data_start == tlv_start + 8
         IN  IF tlv_data_start + tlv_length > Len(data)
             THEN TlvLoop_SkipOverrun(data, n - 1, tlv_data_start, tracks)
             ELSE TlvLoop_SkipOverrun(data, n - 1, tlv_data_start + tlv_length,
                     IF tlv_type = TLV_TYPE_TRACKER_PROC_TARGET_LIST
                     THEN ParseTlv1010Data(Slice(data, tlv_data_start,
                                                 tlv_data_start + tlv_length))
                     ELSE tracks)

\* the loop `for _ in range(num_tlvs)` with n rounds left
RECURSIVE TlvLoop(_, _, _, _)
TlvLoop(data, n, tlv_start, tracks) ==
    IF n = 0 \/ tlv_start + 8 > Len(data) THEN tracks
    ELSE LET tlv_type == UnpackU32(Slice(data, tlv_start, tlv_start + 4))
             tlv_length == UnpackU32(Slice(data, tlv_start + 4, tlv_start + 8))
             tlv_data_start == tlv_start + 8
         IN  TlvLoop(data, n - 1, tlv_data_start + tlv_length,
                     IF tlv_type = TLV_TYPE_TRACKER_PROC_TARGET_LIST
                     THEN ParseTlv1010Data(Slice(data, tlv_data_start,
                                                 tlv_data_start + tlv_length))
                     ELSE tracks)

\* return None, 0, 0
ParseFailed == [is_none |-> TRUE, tracks |-> <<>>, frame_number |-> 0, frame_length |-> 0]

\* _parse_tlv_1010_frame: (tracks_list, frame_number, frame_length)
ParseTlv1010Frame(data) ==
    IF Len(data) < HEADER_LENGTH THEN ParseFailed
    ELSE LET header == Slice(data, 8, HEADER_LENGTH)
             total_packet_len == UnpackU32(Slice(header, 4, 8))
             frame_number == UnpackU32(Slice(header, 12, 16))
             num_tlvs == UnpackU32(Slice(header, 24, 28))
         IN  IF Len(data) < total_packet_len THEN ParseFailed
             ELSE [is_none |-> FALSE,
                   tracks |-> TlvLoop(data, num_tlvs, HEADER_LENGTH, <<>>),
                   frame_number |-> frame_number,
                   frame_length |-> total_packet_len]

(***************************************************************************)
(* A packet written by _output_to_serial and parsed by                     *)
(* _parse_tlv_1010_frame (specification SpecCodec)                         *)
(***************************************************************************)
MaxEncTracks == 2               \* tracks in one encoded packet

\* the tracks to encode: ids, kinematics made of single-precision values and
\* kinematics made of values that need more than 24 significant bits, two
\* confidences and gating gains
CodecTids == {1, 300}
CodecKinematics ==
    {[pos |-> <<One, 2 * One, 0 - One>>, vel |-> <<One \div 8, 0, 0>>,
      acc |-> <<0, 0 - (One \div 4), 0>>],
     [pos |-> <<One + 1, One + 3, 3 * One + 2>>, vel |-> <<0 - (One + 5), 7, 0>>,
      acc |-> <<2 * One + 1, 0, 0>>]}
\* a confidence and a gating gain
CodecQuality == {<<One \div 2, One>>, <<One, 3 * One>>}

CodecTracks ==
    {[global_tid |-> tid,
      posX |-> k.pos[1], posY |-> k.pos[2], posZ |-> k.pos[3],
      velX |-> k.vel[1], velY |-> k.vel[2], velZ |-> k.vel[3],
      accX |-> k.acc[1], accY |-> k.acc[2], accZ |-> k.acc[3],
      confidence |-> q[1], gating_gain |-> q[2]] :
        tid \in CodecTids, k \in CodecKinematics, q \in CodecQuality}

\* lists of at most n of them
RECURSIVE CodecTrackLists(_)
CodecTrackLists(n) ==
    IF n = 0 THEN {<<>>}
    ELSE LET shorter == CodecTrackLists(n - 1)
         IN  shorter \cup {Append(x[1], x[2]) :
                              x \in {y \in shorter : Len(y) = n - 1} \X CodecTracks}

CodecInputs == CodecTrackLists(MaxEncTracks)

InitCodec ==
    /\ EngineStart
    /\ SchedStart
    /\ ReaderIdle
    /\ codec_tracks \in CodecInputs
    /\ serial_packet = <<>>
    /\ parsed = <<>>
    /\ codec_pc = "encode"
    /\ RunStart

\* _output_to_serial(codec_tracks): self.serial_port.write(packet)
OutputToSerial ==
    /\ codec_pc = "encode"
    /\ serial_packet' = OutputPacket(codec_tracks, frame_count, clock)
    /\ codec_pc' = "parse"
    /\ UNCHANGED <<codec_tracks, parsed, fusion_vars, sched_vars, reader_vars>>
    /\ UNCHANGED run_vars

\* _parse_tlv_1010_frame(serial_packet)
ParsePacket ==
    /\ codec_pc = "parse"
    /\ parsed' = <<ParseTlv1010Frame(serial_packet)>>
    /\ codec_pc' = "done"
    /\ UNCHANGED <<codec_tracks, serial_packet, fusion_vars, sched_vars, reader_vars>>
    /\ UNCHANGED run_vars

NextCodec == OutputToSerial \/ ParsePacket

SpecCodec == InitCodec /\ [][NextCodec]_vars

FloatFields ==
    {"posX", "posY", "posZ", "velX", "velY", "velZ", "accX", "accY", "accZ",
     "gating_gain", "confidence"}

\* the parse succeeded, consumed the whole packet and returned as many tracks as
\* were encoded, with the ids in the same order
CodecSameTracks ==
    /\ ~parsed[1].is_none
    /\ parsed[1].frame_length = Len(serial_packet)
    /\ Len(parsed[1].tracks) = Len(codec_tracks)
    /\ \A i \in DOMAIN codec_tracks : parsed[1].tracks[i].tid = codec_tracks[i].global_tid

\* C20 as stated: parsing the encoded packet yields the N tracks in the same
\* order with identical id, position, velocity, acceleration, gating gain and
\* confidence
C20_RoundTripIdentical ==
    codec_pc = "done" =>
        /\ CodecSameTracks
        /\ \A i \in DOMAIN codec_tracks : \A f \in FloatFields :
               parsed[1].tracks[i][f] = codec_tracks[i][f]

\* C20 as amended: N tracks in the same order with identical ids, and each float
\* field equal to the encoded value rounded to single precision, so identical
\* to it exactly when the encoded value is a single-precision value
C20_RoundTripSinglePrecision ==
    codec_pc = "done" =>
        /\ CodecSameTracks
        /\ \A i \in DOMAIN codec_tracks : \A f \in FloatFields :
               /\ parsed[1].tracks[i][f] = Float32(codec_tracks[i][f])
               /\ (parsed[1].tracks[i][f] = codec_tracks[i][f])
                      <=> (RoundTo24(IF codec_tracks[i][f] < 0 THEN 0 - codec_tracks[i][f]
                                     ELSE codec_tracks[i][f])
                           = (IF codec_tracks[i][f] < 0 THEN 0 - codec_tracks[i][f]
                              ELSE codec_tracks[i][f]))

\* a packet of two tracks has been parsed back, one of them with a position
\* that is not a single-precision value, the other made of such values only
C20_Witness ==
    /\ codec_pc = "done"
    /\ Len(codec_tracks) = 2
    /\ codec_tracks[1].posY = One + 3
    /\ parsed[1].tracks[1].posY = One + 4
    /\ codec_tracks[2].posX = One
    /\ parsed[1].tracks[2] =
           [tid |-> codec_tracks[2].global_tid] @@
           [f \in FloatFields \cup {"posX"} |-> codec_tracks[2][f]]

(***************************************************************************)
(* RadarReader.run: deframing the bytes of the data port (SpecReader)      *)
(***************************************************************************)
BUFFER_LIMIT == 100000
MaxStreamFrames == 3            \* frames in the stream on the wire

\* the marker starts at index i (from 0) of buf
MarkerAt(buf, i) ==
    /\ i + Len(MAGIC_WORD) <= Len(buf)
    /\ \A k \in DOMAIN MAGIC_WORD : buf[i + k] = MAGIC_WORD[k]

MarkerPositions(buf) == {i \in 0..(Len(buf) - Len(MAGIC_WORD)) : MarkerAt(buf, i)}

\* data_buffer.count(MAGIC_WORD): no two occurrences of the marker overlap
MarkerCount_PlusOne(buf) == Cardinality(MarkerPositions(buf)) + 1

MarkerCount_AtLeastOne(buf) == IF MarkerPositions(buf) = {} THEN 0 ELSE 2

MarkerCount(buf) == Cardinality(MarkerPositions(buf))

\* data_buffer.find(MAGIC_WORD)
MarkerFind(buf) ==
    IF MarkerPositions(buf) = {} THEN 0 - 1
    ELSE CHOOSE i \in MarkerPositions(buf) : \A j \in MarkerPositions(buf) : i <= j

\* the pose of the sensor in the model: mounted 2.5 m up, turned a quarter turn
\* about the vertical axis
pos_offset == <<0, 0, (5 * One) \div 2>>

FEP_trans_rotation_3D(v) == <<0 - v[2], v[1], v[3]>>

FEP_trans_position_3D(v) == [k \in 1..3 |-> v[k] + pos_offset[k]]

\* np.array(track_array, dtype=np.float32): one row per track
TracksToArray(tracks_list) ==
    [i \in DOMAIN tracks_list |->
        LET track == tracks_list[i]
        IN  <<track.posX, track.posY, track.posZ,
              track.velX, track.velY, track.velZ,
              track.accX, track.accY, track.accZ,
              track.confidence,
              RoundTo24(track.tid)>>]

TransformTracks_TranslateAll(track_array, name) ==
    [i \in DOMAIN track_array |->
        LET row == track_array[i]
            pos_transformed == FEP_trans_position_3D(FEP_trans_rotation_3D(SubSeq(row, 1, 3)))
            vel_rotated == FEP_trans_position_3D(FEP_trans_rotation_3D(SubSeq(row, 4, 6)))
            acc_rotated == FEP_trans_position_3D(FEP_trans_rotation_3D(SubSeq(row, 7, 9)))
        IN  [tid |-> row[11],
             posX |-> pos_transformed[1], posY |-> pos_transformed[2],
             posZ |-> pos_transformed[3],
             velX |-> vel_rotated[1], velY |-> vel_rotated[2], velZ |-> vel_rotated[3],
             accX |-> acc_rotated[1], accY |-> acc_rotated[2], accZ |-> acc_rotated[3],
             confidence |-> row[10],
             gating_gain |-> One,
             radar_name |-> name]]

TransformTracks(track_array, name) ==
    [i \in DOMAIN track_array |->
        LET row == track_array[i]
            pos_transformed == FEP_trans_position_3D(FEP_trans_rotation_3D(SubSeq(row, 1, 3)))
            vel_rotated == FEP_trans_rotation_3D(SubSeq(row, 4, 6))
            acc_rotated == FEP_trans_rotation_3D(SubSeq(row, 7, 9))
        IN  [tid |-> row[11],
             posX |-> pos_transformed[1], posY |-> pos_transformed[2],
             posZ |-> pos_transformed[3],
             velX |-> vel_rotated[1], velY |-> vel_rotated[2], velZ |-> vel_rotated[3],
             accX |-> acc_rotated[1], accY |-> acc_rotated[2], accZ |-> acc_rotated[3],
             confidence |-> row[10],
             gating_gain |-> One,
             radar_name |-> name]]

\* a frame as the sensor sends it: marker, header declaring `declared` bytes,
\* then the TLVs (type, length, data)
SensorFrameBytes(frame_number, num_detected, tlvs, declared) ==
    MAGIC_WORD \o VersionBytes \o PackU32(declared) \o PackU32(PlatformId)
        \o PackU32(frame_number) \o PackU32(0) \o PackU32(num_detected)
        \o PackU32(Len(tlvs)) \o PackU32(0)
        \o Concat([i \in DOMAIN tlvs |->
                      PackU32(tlvs[i].type) \o PackU32(Len(tlvs[i].data)) \o tlvs[i].data])

TlvsLength(tlvs) == Len(Concat([i \in DOMAIN tlvs |-> tlvs[i].data])) + 8 * Len(tlvs)

\* the target a sensor reports
SensorTarget ==
    [global_tid |-> 7, posX |-> One, posY |-> 2 * One, posZ |-> 0 - One,
     velX |-> One \div 8, velY |-> 0, velZ |-> 0,
     accX |-> 0, accY |-> 0 - (One \div 4), accZ |-> 0,
     confidence |-> One \div 2, gating_gain |-> 3 * One]

TargetListTlv(n) ==
    [type |-> TLV_TYPE_TRACKER_PROC_TARGET_LIST,
     data |-> Concat([i \in 1..n |-> TrackData(SensorTarget)])]

\* a TLV of another type (1011, the target index of the same demo firmware)
OtherTlv == [type |-> 1011, data |-> <<0, 1, 2, 3>>]

FrameKinds == {"targets", "empty", "other", "mixed", "zero_length"}

ValidKinds == FrameKinds \ {"zero_length"}

\* what a parse can fail on: a frame cut off behind the first four bytes of its
\* header, and a complete frame with the bytes of the marker in its payload
FaultKinds == {"stub", "marker_inside"}

KindTargets(kind) == IF kind \in {"targets", "mixed", "zero_length", "marker_inside"} THEN 1 ELSE 0

\* the TLVs of a frame: at most one of another type, then the target list
KindTlvs(kind) ==
    (CASE kind \in {"other", "mixed"} -> <<OtherTlv>>
       [] kind = "marker_inside" -> <<[type |-> 1011, data |-> MAGIC_WORD]>>
       [] OTHER -> <<>>)
    \o (IF kind \in {"other", "stub"} THEN <<>> ELSE <<TargetListTlv(KindTargets(kind))>>)

\* the bytes of the frame on the wire
KindLength(kind) ==
    IF kind = "stub" THEN Len(MAGIC_WORD) + 4
    ELSE HEADER_LENGTH + TlvsLength(KindTlvs(kind))

KindDeclared(kind) == IF kind = "zero_length" THEN 0 ELSE KindLength(kind)

KindBytes(kind, frame_number) ==
    SubSeq(SensorFrameBytes(frame_number, KindTargets(kind), KindTlvs(kind), KindDeclared(kind)),
           1, KindLength(kind))

\* the sequences of at most n frame kinds
RECURSIVE KindLists(_)
KindLists(n) ==
    IF n = 0 THEN {<<>>}
    ELSE LET shorter == KindLists(n - 1)
         IN  shorter \cup {Append(x[1], x[2]) :
                              x \in {y \in shorter : Len(y) = n - 1} \X FrameKinds}

Streams == KindLists(MaxStreamFrames) \ {<<>>}

StreamBytes(kinds) == Concat([i \in DOMAIN kinds |-> KindBytes(kinds[i], i)])

\* the sizes in which the operating system hands over the bytes of the port
ChunkSizes == {TARGET_SIZE, 3 * TARGET_SIZE}

ReaderName == Radars[1]

InitReader ==
    /\ EngineStart
    /\ SchedStart
    /\ CodecIdle
    /\ ReaderStart
    /\ stream_frames \in Streams
    /\ wire = StreamBytes(stream_frames)
    /\ RunStart

\* bytes arrive at the data port
Arrive(n) ==
    /\ wire # <<>>
    /\ port_buffer' = port_buffer \o Slice(wire, 0, n)
    /\ wire' = Slice(wire, n, Len(wire))
    /\ UNCHANGED <<data_buffer, reader_frame_count, parse_errors, buffer_offset,
                   parse_calls, stream_frames, fusion_vars, sched_vars, codec_vars>>
    /\ UNCHANGED run_vars

\* lines 103-127: a frame with tracks is transformed and put on the queue
PublishFrame(r) ==
    IF ~r.is_none /\ Len(r.tracks) > 0
    THEN /\ radar_rd_queue' = [radar_rd_queue EXCEPT ![1] =
                Append(@, FrameDict(ReaderName, r.frame_number,
                                    TransformTracks(TracksToArray(r.tracks), ReaderName),
                                    clock))]
         /\ reader_frame_count' = reader_frame_count + 1
    ELSE UNCHANGED <<radar_rd_queue, reader_frame_count>>

\* lines 132-136: the buffer behind the frame, or behind the marker
Advance_ByLength(buf, start_idx, frame_length) ==
    Slice(buf, start_idx + frame_length, Len(buf))

Advance(buf, start_idx, frame_length) ==
    IF frame_length > 0
    THEN Slice(buf, start_idx + frame_length, Len(buf))
    ELSE Slice(buf, start_idx + Len(MAGIC_WORD), Len(buf))

\* The variable data_buffer holds the bytes of the buffer in blocks of
\* TARGET_SIZE bytes, every block but the last one full; DataBuffer is the
\* bytes object of the code.
Blocks(buf) ==
    [k \in 1..((Len(buf) + TARGET_SIZE - 1) \div TARGET_SIZE) |->
        Slice(buf, (k - 1) * TARGET_SIZE, k * TARGET_SIZE)]

Bytes(blocks) ==
    IF blocks = <<>> THEN <<>>
    ELSE [i \in 1..((Len(blocks) - 1) * TARGET_SIZE + Len(blocks[Len(blocks)])) |->
             blocks[((i - 1) \div TARGET_SIZE) + 1][((i - 1) % TARGET_SIZE) + 1]]

DataBuffer == Bytes(data_buffer)

\* lines 139-141: a buffer of more than 100000 bytes is thrown away
ClearOverflow_Keep(buf) == buf

ClearOverflow(buf) == IF Len(buf) > BUFFER_LIMIT THEN <<>> ELSE buf

\* one iteration of the loop of run
ReaderIterate ==
    /\ \E buf \in {DataBuffer \o port_buffer} :
         IF MarkerCount(buf) >= 2
         THEN \E start_idx \in {MarkerFind(buf)} :
              \E r \in {ParseTlv1010Frame(Slice(buf, start_idx, Len(buf)))} :
              \E rest \in {Advance(buf, start_idx, r.frame_length)} :
                  /\ PublishFrame(r)
                  /\ data_buffer' = Blocks(ClearOverflow(rest))
                  /\ buffer_offset' = buffer_offset + Len(buf) - Len(DataBuffer')
                  /\ parse_calls' = Append(parse_calls,
                         [before |-> buffer_offset,
                          start |-> buffer_offset + start_idx,
                          data_len |-> Len(buf) - start_idx,
                          is_none |-> r.is_none,
                          frame_number |-> r.frame_number,
                          frame_length |-> r.frame_length,
                          num_tracks |-> Len(r.tracks),
                          remaining |-> Len(rest),
                          received |-> buffer_offset + Len(buf),
                          after |-> buffer_offset' ,
                          put |-> Len(radar_rd_queue'[1]) - Len(radar_rd_queue[1])])
         ELSE /\ data_buffer' = Blocks(ClearOverflow(buf))
              /\ buffer_offset' = buffer_offset + Len(buf) - Len(DataBuffer')
              /\ UNCHANGED <<parse_calls, radar_rd_queue, reader_frame_count>>
    /\ port_buffer' = <<>>
    /\ UNCHANGED <<wire, parse_errors, stream_frames, fusion_vars, codec_vars>>
    /\ UNCHANGED <<clock, vis_queue, radar_frames_buffer, last_output_time, frame_count,
                   total_tracks_processed, serial_writes, pc, published, dequeued, ticks,
                   tick_times, tick_published, fused_numbers, iter_published>>
    /\ UNCHANGED run_vars

Arrival == \E n \in ChunkSizes : Arrive(n)

NextReader == Arrival \/ ReaderIterate

SpecReader == InitReader /\ [][NextReader]_vars

\* streams with a frame the parser fails on
FaultStreams ==
    {kinds \in UNION {[1..n -> FaultKinds \cup {"targets"}] : n \in 1..MaxStreamFrames} :
        \E i \in DOMAIN kinds : kinds[i] \in FaultKinds}

InitReaderFault ==
    /\ EngineStart
    /\ SchedStart
    /\ CodecIdle
    /\ ReaderStart
    /\ stream_frames \in FaultStreams
    /\ wire = StreamBytes(stream_frames)
    /\ RunStart

SpecReaderFault == InitReaderFault /\ [][NextReader]_vars

\* What the reader holds after a long time without a second marker: bytes of
\* noise, or the start of a frame whose header declares more bytes than arrive.
Backlog(kind, n) ==
    IF kind = "noise" THEN [i \in 1..n |-> 0]
    ELSE SensorFrameBytes(0, 0, <<>>, 2 * BUFFER_LIMIT) \o [i \in 1..(n - HEADER_LENGTH) |-> 0]

BacklogSizes == {BUFFER_LIMIT - 3 * TARGET_SIZE, BUFFER_LIMIT}

InitReaderFull ==
    /\ EngineStart
    /\ SchedStart
    /\ CodecIdle
    /\ RunStart
    /\ stream_frames \in {kinds \in Streams : \A i \in DOMAIN kinds : kinds[i] = "targets"}
    /\ wire = StreamBytes(stream_frames)
    /\ data_buffer \in {Blocks(Backlog(kind, n)) : kind \in {"noise", "long_frame"},
                                                   n \in BacklogSizes}
    /\ port_buffer = <<>>
    /\ reader_frame_count = 0
    /\ parse_errors = 0
    /\ buffer_offset = 0
    /\ parse_calls = <<>>

SpecReaderFull == InitReaderFull /\ [][NextReader]_vars

\* where frame i of the stream starts, counted in bytes from the start of the stream
RECURSIVE FrameOffset(_)
FrameOffset(i) == IF i <= 1 THEN 0 ELSE FrameOffset(i - 1) + KindLength(stream_frames[i - 1])

\* every frame of the stream declares its own byte length
StreamValid == \A i \in DOMAIN stream_frames : stream_frames[i] \in ValidKinds

\* all bytes of the stream have been read and no further iteration parses anything
Quiescent == wire = <<>> /\ port_buffer = <<>> /\ MarkerCount(DataBuffer) < 2

\* C15: every frame the parser decodes successfully, with any number N >= 0 of
\* targets, results in exactly one SensorFrame put on the sensor's queue
C15_EveryDecodedFramePut ==
    /\ \A i \in DOMAIN parse_calls : ~parse_calls[i].is_none => parse_calls[i].put = 1
    /\ Len(radar_rd_queue[1]) = Cardinality({i \in DOMAIN parse_calls : ~parse_calls[i].is_none})

\* C18 as stated: once a stream of k >= 2 valid frames has been received, each of
\* the k frames has been handed to the parser exactly once, as its own
\* totalPacketLength-byte range and in stream order
C18_EachFrameParsedOnce ==
    (Len(stream_frames) >= 2 /\ StreamValid /\ Quiescent) =>
        /\ Len(parse_calls) = Len(stream_frames)
        /\ \A i \in DOMAIN parse_calls :
               /\ parse_calls[i].start = FrameOffset(i)
               /\ parse_calls[i].data_len = KindLength(stream_frames[i])

\* C18 as amended: of a stream of k >= 2 valid frames the first k - 1 are handed
\* to the parser exactly once and in stream order, each as the buffer from the
\* frame's first byte onward (its totalPacketLength bytes and at least the marker
\* of the next frame), and the buffer is then advanced to the next frame; the
\* last frame stays in the buffer, unparsed, until another marker arrives
C18_AllButLastParsedOnce ==
    (Len(stream_frames) >= 2 /\ StreamValid) =>
        /\ Len(parse_calls) <= Len(stream_frames) - 1
        /\ \A i \in DOMAIN parse_calls :
               /\ parse_calls[i].start = FrameOffset(i)
               /\ ~parse_calls[i].is_none
               /\ parse_calls[i].frame_number = i
               /\ parse_calls[i].frame_length = KindLength(stream_frames[i])
               /\ parse_calls[i].data_len >= KindLength(stream_frames[i]) + Len(MAGIC_WORD)
               /\ parse_calls[i].after = FrameOffset(i + 1)
        /\ Quiescent =>
               /\ Len(parse_calls) = Len(stream_frames) - 1
               /\ DataBuffer = KindBytes(Last(stream_frames), Len(stream_frames))

\* a stream of three valid frames has been received: the first two were parsed,
\* the first of them together with bytes of the second, the third waits
C18_Witness ==
    /\ Len(stream_frames) = 3
    /\ StreamValid
    /\ Quiescent
    /\ Len(parse_calls) = 2
    /\ parse_calls[1].data_len > KindLength(stream_frames[1]) + Len(MAGIC_WORD)
    /\ parse_calls[2].start = FrameOffset(2)
    /\ Len(DataBuffer) = KindLength(stream_frames[3])

\* C19 as stated: after a successful parse the buffer starts at frameStart +
\* totalPacketLength, whatever length the header declares and whatever TLV
\* types the frame holds
C19_AdvancedByDeclaredLength ==
    \A i \in DOMAIN parse_calls :
        ~parse_calls[i].is_none =>
            parse_calls[i].after = parse_calls[i].start + parse_calls[i].frame_length

\* C19 as amended: after a successful parse the buffer starts at frameStart +
\* totalPacketLength when the declared length is positive, and behind the
\* marker when it is zero, whatever TLV types the frame holds; a buffer left
\* with more than BUFFER_LIMIT bytes is emptied instead
C19_AdvancedByPositiveLength ==
    \A i \in DOMAIN parse_calls :
        LET c == parse_calls[i]
        IN  ~c.is_none =>
                c.after = IF c.remaining > BUFFER_LIMIT THEN c.received
                          ELSE IF c.frame_length > 0 THEN c.start + c.frame_length
                          ELSE c.start + Len(MAGIC_WORD)

\* a frame of two TLVs, the first of another type, was parsed and the buffer
\* advanced by its declared length; a frame declaring length 0 was parsed and
\* the buffer advanced by the marker
C19_Witness ==
    /\ Len(parse_calls) = 2
    /\ stream_frames[1] = "mixed"
    /\ ~parse_calls[1].is_none
    /\ parse_calls[1].num_tracks = 1
    /\ parse_calls[1].after = KindLength("mixed")
    /\ stream_frames[2] = "zero_length"
    /\ ~parse_calls[2].is_none
    /\ parse_calls[2].frame_length = 0
    /\ parse_calls[2].after = parse_calls[2].start + Len(MAGIC_WORD)

\* C21: when the parser is given fewer than 40 bytes, or fewer than the declared
\* totalPacketLength, nothing is decoded and the buffer is left unchanged, so
\* that the same frame start is parsed again once more bytes have arrived
C21_IncompleteLeavesBuffer ==
    \A i \in DOMAIN parse_calls :
        parse_calls[i].is_none =>
            /\ parse_calls[i].put = 0
            /\ parse_calls[i].after = parse_calls[i].before
            /\ i < Len(parse_calls) => parse_calls[i + 1].start = parse_calls[i].start

\* a step taken while the bytes read so far hold fewer than two markers calls
\* no parser and removes no byte, unless the overflow clear empties the buffer
C30_Step ==
    Cardinality(MarkerPositions(DataBuffer \o port_buffer)) < 2 =>
        /\ parse_calls' = parse_calls
        /\ \/ DataBuffer' \in {DataBuffer, DataBuffer \o port_buffer}
           \/ Len(DataBuffer \o port_buffer) > BUFFER_LIMIT /\ DataBuffer' = <<>>

\* C30: while the buffer contains fewer than two occurrences of the sync marker
\* the parser is not called and no byte is removed from the buffer, other than
\* by the overflow clear
C30_FewerThanTwoMarkers == [][C30_Step]_vars

\* an iteration has read the first bytes of a stream, one marker among them, and
\* left them in the buffer without a parse
C30_Witness ==
    /\ wire # <<>>
    /\ port_buffer = <<>>
    /\ Cardinality(MarkerPositions(DataBuffer)) = 1
    /\ buffer_offset = 0
    /\ Len(DataBuffer) = TARGET_SIZE
    /\ parse_calls = <<>>

\* the RawTrack the parser decodes from the bytes of the sensor's target
RawTarget == ParseTarget(TrackData(SensorTarget))

\* the WorldTracks on the sensor's queue
PublishedTracks ==
    UNION {Range(radar_rd_queue[1][k].tracks) : k \in DOMAIN radar_rd_queue[1]}

\* C22: the sensor's rotation is applied to position, velocity and acceleration
\* alike and positionOffset is added to position only: velocity and
\* acceleration of a WorldTrack are the rotated vectors, without the offset
C22_OffsetOnPositionOnly ==
    \A t \in PublishedTracks :
        /\ Pos(t) = [k \in 1..3 |-> FEP_trans_rotation_3D(Pos(RawTarget))[k] + pos_offset[k]]
        /\ Vel(t) = FEP_trans_rotation_3D(Vel(RawTarget))
        /\ Acc(t) = FEP_trans_rotation_3D(Acc(RawTarget))

\* a track at (1, 2, -1) m moving at 0.125 m/s along x has been published at
\* (-2, 1, 1.5) m moving at 0.125 m/s along y
C22_Witness ==
    \E t \in PublishedTracks :
        /\ Pos(t) = <<0 - 2 * One, One, (3 * One) \div 2>>
        /\ Vel(t) = <<0, One \div 8, 0>>
        /\ Acc(t) = <<One \div 4, 0, 0>>

\* C23: every published WorldTrack carries the confidence and the gating gain of
\* the RawTrack it was derived from, unchanged
C23_ConfidenceAndGainCarried ==
    \A t \in PublishedTracks :
        /\ t.confidence = RawTarget.confidence
        /\ t.gating_gain = RawTarget.gating_gain

\* C27: candidates are visited in input order; each candidate not yet claimed
\* seeds a cluster made of itself and exactly the unclaimed candidates within
\* distance_threshold of it, whatever their distance to the other members, and
\* a claimed candidate neither seeds nor joins a later cluster
C27_GreedySeedClusters ==
    /\ ~raised
    /\ \A i \in DOMAIN fused_tracks :
          LET M(k) == {j \in DOMAIN Candidates :
                          Key(Candidates[j]) \in Range(fused_tracks[k].source_tids)}
              free == DOMAIN Candidates \ UNION {M(k) : k \in 1..(i - 1)}
          IN  /\ free # {}
              /\ M(i) = {SetMin(free)} \cup
                        {j \in free : IsClose(Pos(Candidates[SetMin(free)]), Pos(Candidates[j]))}
    /\ Candidates # <<>> => fused_tracks # <<>>
    /\ \A j \in DOMAIN Candidates :
          \E i \in DOMAIN fused_tracks : Key(Candidates[j]) \in Range(fused_tracks[i].source_tids)

\* three candidates in a chain: the first seeds a cluster with the second; the
\* third, within distance_threshold of the second but not of the first, is left
\* to seed a cluster of its own
C27_Witness ==
    /\ Len(Candidates) = 3
    /\ IsClose(Pos(Candidates[1]), Pos(Candidates[2]))
    /\ IsClose(Pos(Candidates[2]), Pos(Candidates[3]))
    /\ ~IsClose(Pos(Candidates[1]), Pos(Candidates[3]))
    /\ Len(fused_tracks) = 2
    /\ fused_tracks[1].num_radars_detected = 2
    /\ Range(fused_tracks[2].source_tids) = {Key(Candidates[3])}

\* C28 as stated: every call of fuse_tracks, whatever its input, first removes
\* every table entry whose last_seen is older than the timeout
C28_EveryCallPurges ==
    \A g \in pre_expired :
        /\ g \notin DOMAIN global_tid_last_seen
        /\ g \notin MappedIds
        /\ \A i \in DOMAIN fused_tracks : fused_tracks[i].global_tid # g

\* C28 as amended: a call with at least one frame first removes every entry
\* whose last_seen is older than the timeout, so that no candidate is given a
\* timed-out id; a call with an empty frame list returns the empty list and
\* leaves the tables as they were, timed-out entries included
C28_NonEmptyCallPurges ==
    IF radar_frames # <<>>
    THEN \A g \in pre_expired :
             /\ g \notin DOMAIN global_tid_last_seen
             /\ g \notin MappedIds
             /\ \A i \in DOMAIN fused_tracks : fused_tracks[i].global_tid # g
    ELSE /\ fused_tracks = <<>>
         /\ radar_to_global_tid = pre_map
         /\ next_global_tid = pre_next
         /\ pre_expired \subseteq DOMAIN global_tid_last_seen

\* a call with a frame has purged a timed-out id, and the track that had it was
\* given another one
C28_Witness ==
    /\ radar_frames # <<>>
    /\ pre_expired # {}
    /\ \E k \in ExpiredKeys \cap DOMAIN OutIds : OutIds[k] \notin pre_expired
    /\ DOMAIN global_tid_last_seen \cap pre_expired = {}

\* a tick with every slot empty calls no fuse_tracks and writes nothing; a tick
\* that writes to the serial sink or the fused-output queue has called
\* fuse_tracks and got a non-empty list, which is what it puts on the queue
C26_Step ==
    ticks' = ticks + 1 =>
        /\ AvailableFrames(radar_frames_buffer) = <<>> =>
               /\ tick_times' = tick_times
               /\ UNCHANGED <<radar_frames, fused_tracks, next_global_tid,
                              radar_to_global_tid, global_tid_last_seen>>
               /\ UNCHANGED <<serial_writes, vis_queue, frame_count, total_tracks_processed>>
        /\ (serial_writes' # serial_writes \/ vis_queue' # vis_queue \/ frame_count' # frame_count) =>
               /\ tick_times' = Append(tick_times, clock)
               /\ fused_tracks' # <<>>
               /\ vis_queue' = Append(vis_queue, fused_tracks')

\* C26: on a tick at which no slot holds a frame fuse_tracks is not invoked and
\* nothing is written to the serial sink or the fused-output queue; on any tick
\* a batch is published only if the fused list is non-empty
C26_EmptyTickPublishesNothing == [][C26_Step]_vars

\* a first tick found every slot empty and left no trace; a later tick fused a
\* frame and published the batch
C26_Witness ==
    /\ ticks = 2
    /\ fused_numbers[1] = <<0, 1>>
    /\ fused_numbers[2] = <<0, 0>>
    /\ Len(tick_times) = 1
    /\ frame_count = 1
    /\ Len(fused_tracks) = 1

\* a cycle leaves the slots alone; a slot changes only in a step that takes a
\* frame with a higher number from that radar's queue; the frames a cycle fuses
\* are the frames the slots hold
C29_Step ==
    /\ ticks' # ticks =>
           /\ radar_frames_buffer' = radar_frames_buffer
           /\ AvailableFrames(radar_frames_buffer) # <<>> =>
                  radar_frames' = AvailableFrames(radar_frames_buffer)
    /\ \A i \in DOMAIN Radars :
           radar_frames_buffer'[Radars[i]] # radar_frames_buffer[Radars[i]] =>
               /\ Len(dequeued'[i]) = Len(dequeued[i]) + 1
               /\ SlotNumber(radar_frames_buffer', i) = Last(dequeued'[i])
               /\ SlotNumber(radar_frames_buffer', i) > SlotNumber(radar_frames_buffer, i)

\* C29: a fusion cycle leaves every latest-frame slot unchanged and a slot
\* changes only when a newer frame of that sensor is dequeued, so the last frame
\* of a sensor that stopped publishing is fused again on every later tick
C29_CycleKeepsSlots == [][C29_Step]_vars

\* Radar1 published one frame and no more; two cycles have run since and both
\* fused that frame
C29_Witness ==
    /\ published[1] = 1
    /\ dequeued[1] = <<1>>
    /\ fused_numbers[1] = <<1, 1>>
    /\ Len(tick_times) = 2
    /\ SlotNumber(radar_frames_buffer, 1) = 1

(***************************************************************************)
(* The processes of main.py and the shared run flag (SpecRun)              *)
(***************************************************************************)
MaxErrors == 1                  \* exceptions one process catches in its loop

\* mutant: the loop does not look at the flag
LoopTest_Forever(flag) == "body"

\* `while self.run_flag.value:`
LoopTest(flag) == IF flag THEN "body" ELSE "exited"

\* run before the loop.  A reader connects to its ports and the fuser needs its
\* serial port: without it the process clears the run flag and returns.
CtxStart(c) ==
    /\ ctx[c] = "start"
    /\ \E ok \in BOOLEAN :
           IF ok \/ c = "Module_VIS"
           THEN ctx' = [ctx EXCEPT ![c] = "test"] /\ UNCHANGED run_flag
           ELSE ctx' = [ctx EXCEPT ![c] = "exited"] /\ run_flag' = FALSE
    /\ UNCHANGED <<coordinator, ctx_errors, fusion_vars, sched_vars, reader_vars, codec_vars>>

\* the test of the while loop.  When Visualizer.run returns, the object is
\* destroyed and __del__ clears the run flag.
CtxTest(c) ==
    /\ ctx[c] = "test"
    /\ ctx' = [ctx EXCEPT ![c] = LoopTest(run_flag)]
    /\ run_flag' = IF c = "Module_VIS" /\ ctx'[c] = "exited" THEN FALSE ELSE run_flag
    /\ UNCHANGED <<coordinator, ctx_errors, fusion_vars, sched_vars, reader_vars, codec_vars>>

\* one pass through the loop body.  The loops of a reader and of the fuser catch
\* every Exception, count or log it and go on; Visualizer.run catches nothing,
\* so an exception ends the process, and __del__ clears the run flag.
CtxBody(c) ==
    /\ ctx[c] = "body"
    /\ \E error \in BOOLEAN :
           IF ~error
           THEN ctx' = [ctx EXCEPT ![c] = "test"] /\ UNCHANGED <<run_flag, ctx_errors>>
           ELSE IF c = "Module_VIS"
           THEN ctx' = [ctx EXCEPT ![c] = "exited"] /\ run_flag' = FALSE /\ UNCHANGED ctx_errors
           ELSE /\ ctx_errors[c] < MaxErrors
                /\ ctx_errors' = [ctx_errors EXCEPT ![c] = @ + 1]
                /\ ctx' = [ctx EXCEPT ![c] = "test"]
                /\ UNCHANGED run_flag
    /\ UNCHANGED <<coordinator, fusion_vars, sched_vars, reader_vars, codec_vars>>

\* main: KeyboardInterrupt while joining, run_flag.value = False
Shutdown ==
    /\ coordinator = "joining"
    /\ run_flag' = FALSE
    /\ coordinator' = "stopping"
    /\ UNCHANGED <<ctx, ctx_errors, fusion_vars, sched_vars, reader_vars, codec_vars>>

\* main: after sleep(2), every process still alive is terminated
Terminate ==
    /\ coordinator = "stopping"
    /\ ctx' = [c \in Contexts |-> IF ctx[c] = "exited" THEN "exited" ELSE "terminated"]
    /\ coordinator' = "stopped"
    /\ UNCHANGED <<run_flag, ctx_errors, fusion_vars, sched_vars, reader_vars, codec_vars>>

\* main: every proc.join() has returned
JoinAll ==
    /\ coordinator = "joining"
    /\ \A c \in Contexts : ctx[c] = "exited"
    /\ coordinator' = "finished"
    /\ UNCHANGED <<run_flag, ctx, ctx_errors, fusion_vars, sched_vars, reader_vars, codec_vars>>

ProcessStep == \E c \in Contexts : CtxStart(c) \/ CtxTest(c) \/ CtxBody(c)

NextRun == ProcessStep \/ Shutdown \/ Terminate \/ JoinAll

SpecRun == Init /\ [][NextRun]_vars

\* Fairness.  Every process is scheduled: the start of run and a pass through a
\* loop body end (the port read has a timeout, the queue operations of the
\* fuser do not block), and the loop test is reached again.  Nothing is assumed
\* about main.
SpecRunLive ==
    /\ Init /\ [][NextRun]_vars
    /\ \A c \in Contexts : WF_vars(CtxStart(c)) /\ WF_vars(CtxTest(c)) /\ WF_vars(CtxBody(c))

\* C24: a sensor or fusion process is out of its loop only after main has issued
\* the shutdown, and the run flag is cleared by main only
C24_OnlyCoordinatorStops ==
    /\ ~run_flag => coordinator \in {"stopping", "stopped"}
    /\ \A c \in Contexts \ {"Module_VIS"} :
           ctx[c] \in {"exited", "terminated"} => coordinator \in {"stopping", "stopped"}

\* with the flag cleared, a process at its loop test does not start another pass
C25_Step ==
    \A c \in Contexts \ {"Module_VIS"} :
        (ctx[c] = "test" /\ ~run_flag /\ ctx'[c] # ctx[c]) => ctx'[c] \in {"exited", "terminated"}

C32_Step ==
    (wire' = wire) =>
        /\ Len(DataBuffer') <= BUFFER_LIMIT
        /\ (Len(parse_calls') = Len(parse_calls)
                /\ Len(DataBuffer) + Len(port_buffer) > BUFFER_LIMIT) => data_buffer' = <<>>
        /\ (Len(parse_calls') > Len(parse_calls)
                /\ Last(parse_calls').remaining > BUFFER_LIMIT) => data_buffer' = <<>>

\* C32: at the end of every iteration of the loop the buffer holds at most
\* 100000 bytes; a longer buffer is emptied completely and the loop goes on
C32_BufferBounded == [][C32_Step]_vars

\* the buffer overflowed and was emptied before any frame was parsed; the loop
\* went on, and the next complete frame was decoded and put on the queue
C32_Witness ==
    /\ Len(parse_calls) = 1
    /\ parse_calls[1].before > BUFFER_LIMIT
    /\ parse_calls[1].start > parse_calls[1].before
    /\ ~parse_calls[1].is_none
    /\ parse_calls[1].put = 1
    /\ Len(DataBuffer) <= BUFFER_LIMIT

(***************************************************************************)
(* _parse_tlv_1010_frame on frames whose numTLVs and TLV length fields do  *)
(* not agree with their bytes (SpecParse)                                  *)
(***************************************************************************)
MaxRecords == 2                 \* TLV records in one frame

\* the TLV headers the loop `for _ in range(num_tlvs)` unpacks, in order, with
\* n rounds left
RECURSIVE TlvWalk(_, _, _)
TlvWalk(data, n, tlv_start) ==
    IF n = 0 \/ tlv_start + 8 > Len(data) THEN <<>>
    ELSE LET tlv_type == UnpackU32(Slice(data, tlv_start, tlv_start + 4))
             tlv_length == UnpackU32(Slice(data, tlv_start + 4, tlv_start + 8))
         IN  <<[start |-> tlv_start, type |-> tlv_type, length |-> tlv_length]>>
                 \o TlvWalk(data, n - 1, tlv_start + 8 + tlv_length)

\* a TLV record on the wire: its type, its payload and the length it declares
WalkRecords ==
    {[type |-> t[1], data |-> t[2], declared |-> d] :
        t \in {<<TLV_TYPE_TRACKER_PROC_TARGET_LIST, <<>>>>,
               <<TLV_TYPE_TRACKER_PROC_TARGET_LIST, TrackData(SensorTarget)>>,
               <<OtherTlv.type, <<>>>>,
               <<OtherTlv.type, OtherTlv.data>>},
        d \in {0, TARGET_SIZE, BigUint}}

\* lists of at most n of them
RECURSIVE WalkRecordLists(_)
WalkRecordLists(n) ==
    IF n = 0 THEN {<<>>}
    ELSE LET shorter == WalkRecordLists(n - 1)
         IN  shorter \cup {Append(x[1], x[2]) :
                              x \in {y \in shorter : Len(y) = n - 1} \X WalkRecords}

\* the bytes of a frame with these records whose header declares num_tlvs
\* records and the true length of the frame
WalkFrameBytes(num_tlvs, records) ==
    MAGIC_WORD \o VersionBytes
        \o PackU32(HEADER_LENGTH + TlvsLength(records)) \o PackU32(PlatformId)
        \o PackU32(1) \o PackU32(0) \o PackU32(0) \o PackU32(num_tlvs) \o PackU32(0)
        \o Concat([i \in DOMAIN records |->
                      PackU32(records[i].type) \o PackU32(records[i].declared)
                          \o records[i].data])

\* the frames to parse: the records, the numTLVs of the header, and whether the
\* bytes of a following frame are in the buffer already
WalkInputs ==
    {[records |-> recs, num_tlvs |-> n, followed |-> f] :
        recs \in WalkRecordLists(MaxRecords), n \in {0, 1, MaxRecords, BigUint},
        f \in BOOLEAN}

\* frame_data = data_buffer[start_idx:] for such a frame
WalkData(in) ==
    WalkFrameBytes(in.num_tlvs, in.records)
        \o (IF in.followed
            THEN WalkFrameBytes(1, <<[type |-> TLV_TYPE_TRACKER_PROC_TARGET_LIST,
                                      data |-> TargetListTlv(1).data,
                                      declared |-> TARGET_SIZE]>>)
            ELSE <<>>)

InitParse ==
    /\ EngineStart
    /\ SchedStart
    /\ ReaderIdle
    /\ RunStart
    /\ codec_tracks \in WalkInputs
    /\ serial_packet = WalkData(codec_tracks)
    /\ parsed = <<>>
    /\ codec_pc = "parse"

SpecParse == InitParse /\ [][ParsePacket]_vars

\* the records of the walk that hold a target list
TargetLists(walk) ==
    {k \in DOMAIN walk : walk[k].type = TLV_TYPE_TRACKER_PROC_TARGET_LIST}

\* C33: the parse of a frame ends without an error whatever its numTLVs and its
\* TLV length fields are: every header the walk unpacks lies inside the data,
\* the walk makes no more rounds than the data has 8-byte headers, a record that
\* runs past the end of the data is the last one of the walk, and the tracks
\* returned are those of the last target list of the walk
C33_WalkStopsAtOverrun ==
    codec_pc = "done" =>
        LET data == serial_packet
            walk == TlvWalk(data, codec_tracks.num_tlvs, HEADER_LENGTH)
        IN  /\ ~parsed[1].is_none
            /\ Len(walk) <= codec_tracks.num_tlvs
            /\ Len(walk) <= Len(data) \div 8
            /\ \A k \in DOMAIN walk :
                   /\ walk[k].start + 8 <= Len(data)
                   /\ walk[k].start + 8 + walk[k].length > Len(data) => k = Len(walk)
            /\ parsed[1].tracks =
                   IF TargetLists(walk) = {} THEN <<>>
                   ELSE LET last == walk[SetMax(TargetLists(walk))]
                        IN  ParseTlv1010Data(Slice(data, last.start + 8,
                                                   last.start + 8 + last.length))

\* a header that declares 2^30 records; the first record, of another type,
\* declares 2^30 bytes, and the target list behind it is not decoded
C33_Witness ==
    /\ codec_pc = "done"
    /\ codec_tracks.num_tlvs = BigUint
    /\ Len(codec_tracks.records) = 2
    /\ codec_tracks.records[1] = [type |-> OtherTlv.type, data |-> <<>>, declared |-> BigUint]
    /\ codec_tracks.records[2].type = TLV_TYPE_TRACKER_PROC_TARGET_LIST
    /\ Len(codec_tracks.records[2].data) = TARGET_SIZE
    /\ codec_tracks.records[2].declared = TARGET_SIZE
    /\ ~parsed[1].is_none
    /\ parsed[1].tracks = <<>>

\* C37: the tracks returned for a frame are decoded from the totalPacketLength
\* bytes of the frame only: the bytes of a following frame in the buffer do not
\* contribute to them
C37_TracksFromFrameOnly ==
    (codec_pc = "done" /\ ~parsed[1].is_none) =>
        parsed[1].tracks =
            ParseTlv1010Frame(Slice(serial_packet, 0, parsed[1].frame_length)).tracks

\* C34: the members of a merged track come from different radars, so that
\* num_radars_detected is the number of distinct names in source_radars
C34_MembersFromDifferentRadars ==
    \A i \in DOMAIN fused_tracks :
        IsMerged(fused_tracks[i]) =>
            fused_tracks[i].num_radars_detected = Cardinality(Range(fused_tracks[i].source_radars))

\* C35: no two tracks of the list returned by one call have the same global_tid
C35_IdsDistinctInOneList ==
    \A i, j \in DOMAIN fused_tracks :
        fused_tracks[i].global_tid = fused_tracks[j].global_tid => i = j

\* radar i is among the source radars of a track of the latest fused list
InOutput(i) ==
    \E k \in DOMAIN fused_tracks : Radars[i] \in Range(fused_tracks[k].source_radars)

\* C36: a radar whose frames hold no target from some point on (it puts no
\* frame on its queue any more) is, from some point on, not among the source
\* radars of the fused tracks
C36_SilentRadarLeavesOutput ==
    \A i \in DOMAIN Radars :
        <>[][published'[i] = published[i]]_vars => <>[](~InOutput(i))

\* a fusion cycle leaves the frames it was given as they were
C38_Step ==
    Len(tick_times') > Len(tick_times) =>
        /\ radar_frames' = AvailableFrames(radar_frames_buffer)
        /\ AvailableFrames(radar_frames_buffer') = AvailableFrames(radar_frames_buffer)

\* C38: fuse_tracks does not modify the frames or the tracks passed to it: the
\* frames in the slots of the scheduler are the same before and after every
\* fusion cycle
C38_FramesNotModified == [][C38_Step]_vars

\* two cycles have fused the same frame of the first radar, one of them alone
\* and one of them merged with a track of the second radar, and the frames of
\* the slots are still as they were passed to the latest call
C38_Witness ==
    /\ Len(tick_times) = 2
    /\ fused_numbers[1] = <<1, 1>>
    /\ fused_numbers[2] = <<0, 1>>
    /\ Len(fused_tracks) = 1
    /\ IsMerged(fused_tracks[1])
    /\ radar_frames = AvailableFrames(radar_frames_buffer)

(***************************************************************************)
(* The weights of a merge                                                  *)
(***************************************************************************)
\* the weights specification: single calls on a fresh engine with tracks at the
\* two close positions of the module's self-test and a third one between them,
\* with confidences 0.0, 0.5 and 1.0 (in hundredths)
WeightPositions == {<<1000, 2000, 1500>>, <<1050, 2050, 1450>>, <<1100, 2100, 1400>>}
WeightTids == {1, 5}
WeightConfidences == {0, 50, 100}

WeightTracks ==
    {MkTrack(tid, p, <<100, 200, 0>>, <<0, 0, 0>>, c) :
        tid \in WeightTids, p \in WeightPositions, c \in WeightConfidences}

WeightFrameLists == FrameLists(WeightTracks, MaxTracks, MaxCand)

FuseWeights ==
    /\ next_global_tid = 1
    /\ radar_frames = <<>>
    /\ \E frames \in WeightFrameLists :
           FuseTracks(Stamp(frames, [i \in DOMAIN frames |-> now]))
    /\ UNCHANGED <<sched_vars, reader_vars, codec_vars>>
    /\ UNCHANGED run_vars

NextWeights == FuseWeights

SpecWeights == InitMerge /\ [][NextWeights]_vars

\* the smallest and the largest value of field f over the members
MemberMin(ms, f) == SetMin({ms[j][f] : j \in DOMAIN ms})
MemberMax(ms, f) == SetMax({ms[j][f] : j \in DOMAIN ms})

\* C39: in every merged track, whatever the members' confidences between 0 and
\* 1 (all of them 0 included), the weights confidence_i / sum are defined and
\* each fused coordinate lies between the smallest and the largest coordinate
\* of the members
C39_FusedBetweenMembers ==
    \A i \in DOMAIN fused_tracks :
        LET ft == fused_tracks[i]
            ms == MembersOf(ft)
        IN  IsMerged(ft) =>
              \A f \in Axes :
                  /\ ft[f].den > 0
                  /\ MemberMin(ms, f) * ft[f].den <= ft[f].num
                  /\ ft[f].num <= MemberMax(ms, f) * ft[f].den

(***************************************************************************)
(* The track id from the wire to the queue (SpecReaderIds)                 *)
(***************************************************************************)
\* the ids the sensor sends: a small one and ids of more than 24 bits
WireIds == {7, 2^24, 2^24 + 1, 2^24 + 3}

\* a frame with one target whose id is id
WireIdFrameBytes(frame_number, id) ==
    SensorFrameBytes(frame_number, 1,
                     <<[type |-> TLV_TYPE_TRACKER_PROC_TARGET_LIST,
                        data |-> TrackData([SensorTarget EXCEPT !.global_tid = id])]>>,
                     HEADER_LENGTH + 8 + TARGET_SIZE)

\* the streams: stream_frames[n] is the id of the target of frame n
WireIdStreams == UNION {[1..n -> WireIds] : n \in 2..MaxStreamFrames}

InitReaderIds ==
    /\ EngineStart
    /\ SchedStart
    /\ CodecIdle
    /\ ReaderStart
    /\ stream_frames \in WireIdStreams
    /\ wire = Concat([n \in DOMAIN stream_frames |-> WireIdFrameBytes(n, stream_frames[n])])
    /\ RunStart

SpecReaderIds == InitReaderIds /\ [][NextReader]_vars

\* C40: the tid of every track the reader puts on its queue is the id the
\* sensor sent for it, for every unsigned 32-bit id
C40_IdAsOnWire ==
    \A k \in DOMAIN radar_rd_queue[1] :
        LET frame == radar_rd_queue[1][k]
        IN  /\ frame.num_tracks = 1
            /\ frame.tracks[1].tid = stream_frames[frame.frame_number]

====
